---- MODULE Spec2Model ----
(***************************************************************************)
(* Model of the AI orchestration core of Glint: the provider registry      *)
(* (AiProviderManager), the result merger (AiResultMerger), the request id *)
(* generator and the dispatch operations of AiCoreService                  *)
(* (services/aiCore/common/aiCoreService.ts, current version), and the     *)
(* context manager of the assistant service (AiContextManager,             *)
(* services/aiAssistant/common/aiAssistantService.ts).                     *)
(***************************************************************************)
EXTENDS Integers, Sequences, FiniteSets, TLC

\* ------------------------------------------------------------------ bounds

\* Number of calls made to the service in one run: register*, dispose of a
\* registration handle, getCompletion / getChatResponse / getCodeEdit.
MaxCalls == 4

\* Number of provider results handed to one call of a merge function.
MaxResults == 3

\* Number of calls made to the context manager in one run: setContext and
\* clearContext.  More than maxHistorySize, so that the history evicts.
MaxContextCalls == 12

\* Number of steps of a run in which a caller reads the context and changes
\* the object it got: calls to the context manager and changes together.
MaxReaderSteps == 5

\* Number of calls made in a run of the assistant service: registrations,
\* calls to the context manager and operations of the assistant together.
MaxAssistantSteps == 5

\* Number of panel operations called in a run, the ones that return at once
\* included.
MaxPanelCalls == 3

\* ---------------------------------------------------------------- universe

\* Provider objects.  p1 and p3 are two distinct objects with the same id.
AllProviders == {"p1", "p2", "p3"}

\* The provider objects registered in the runs that dispatch.
Providers == {"p1", "p2"}

Ids == {"a", "b"}

\* IAiProvider.id
ProviderId(p) == IF p = "p2" THEN "b" ELSE "a"

None == "none"

Kinds == {"completion", "chat", "codeEdit"}

\* Inputs of a dispatch: query / message / request, ambient context, token.
Inputs == {"in1"}
Contexts == {"ctx1"}
Tokens == {"tok1"}

\* Values Date.now() and Math.random() may return.
Clock == {1}
Randoms == {"r1"}

\* ------------------------------------------------------- provider results

\* AiCompletion: text, range start, score (in tenths).
Completion(t, l, c, s) == [text |-> t, startLineNumber |-> l, startColumn |-> c, score |-> s]

\* AiCompletionResult values a completion provider may resolve with.
CompletionResults ==
    { [completions |-> << Completion("X", 1, 1, 9), Completion("Y", 1, 2, 9) >>,
       metadata |-> [provider |-> "m1"]],
      [completions |-> << Completion("X", 1, 1, 5), Completion("Z", 2, 1, 10) >>,
       metadata |-> [provider |-> "m2"]] }

\* AiChatResponse values a chat provider may resolve with.
ChatResults ==
    { [message |-> "Hi", codeBlocks |-> << "cb1" >>, suggestions |-> << "a", "b" >>,
       metadata |-> [provider |-> "m1"]],
      [message |-> "Hello", codeBlocks |-> << "cb2" >>, suggestions |-> << "b", "c" >>,
       metadata |-> [provider |-> "m2"]] }

\* AiCodeEditResult values a code-edit provider may resolve with.
CodeEditResults ==
    { [edits |-> << "ed1" >>, explanation |-> "first", metadata |-> [provider |-> "m1"]],
      [edits |-> << "ed1", "ed2" >>, explanation |-> "second", metadata |-> [provider |-> "m2"]] }

ResultsOf(kind) ==
    CASE kind = "completion" -> CompletionResults
      [] kind = "chat" -> ChatResults
      [] kind = "codeEdit" -> CodeEditResults

\* ------------------------------------------------------------ AiResultMerger

\* Object.assign(target, source)
ObjectAssign(target, source) ==
    [k \in (DOMAIN target) \cup (DOMAIN source) |->
        IF k \in DOMAIN source THEN source[k] ELSE target[k]]

RECURSIVE MergeMetadata(_)
MergeMetadata(results) ==
    IF results = << >> THEN << >>
    ELSE ObjectAssign(MergeMetadata(SubSeq(results, 1, Len(results) - 1)),
                      results[Len(results)].metadata)

\* Mutant of ConcatField: the results are taken last to first.
RECURSIVE ConcatFieldLastFirst(_, _)
ConcatFieldLastFirst(results, field) ==
    IF results = << >> THEN << >>
    ELSE ConcatFieldLastFirst(Tail(results), field) \o results[1][field]

\* allX.push(...result.X) over the results, in order
RECURSIVE ConcatField(_, _)
ConcatField(results, field) ==
    IF results = << >> THEN << >>
    ELSE results[1][field] \o ConcatField(Tail(results), field)

\* Mutant of CompletionKey: the parts are joined without a separator.
CompletionKeyNoSeparator(c) ==
    c.text \o ToString(c.startLineNumber) \o ToString(c.startColumn)

\* `${completion.text}-${completion.range.startLineNumber}-${completion.range.startColumn}`
CompletionKey(c) ==
    c.text \o "-" \o ToString(c.startLineNumber) \o "-" \o ToString(c.startColumn)

RECURSIVE DedupFrom(_, _)
DedupFrom(completions, seen) ==
    IF completions = << >> THEN << >>
    ELSE LET key == CompletionKey(completions[1])
         IN  IF key \in seen
             THEN DedupFrom(Tail(completions), seen)
             ELSE << completions[1] >> \o DedupFrom(Tail(completions), seen \cup {key})

deduplicateCompletions(completions) == DedupFrom(completions, {})

\* Mutant of InsertByScore: x goes before the elements of equal score.
RECURSIVE InsertByScoreBeforeEqual(_, _)
InsertByScoreBeforeEqual(sorted, x) ==
    IF sorted = << >> THEN << x >>
    ELSE IF sorted[1].score > x.score
         THEN << sorted[1] >> \o InsertByScoreBeforeEqual(Tail(sorted), x)
         ELSE << x >> \o sorted

\* Insert x after every element whose score is >= x.score (stable, descending).
RECURSIVE InsertByScore(_, _)
InsertByScore(sorted, x) ==
    IF sorted = << >> THEN << x >>
    ELSE IF sorted[1].score >= x.score
         THEN << sorted[1] >> \o InsertByScore(Tail(sorted), x)
         ELSE << x >> \o sorted

\* Array.prototype.sort((a, b) => b.score - a.score): stable
RECURSIVE SortByScoreDesc(_)
SortByScoreDesc(s) ==
    IF s = << >> THEN << >>
    ELSE InsertByScore(SortByScoreDesc(SubSeq(s, 1, Len(s) - 1)), s[Len(s)])

mergeCompletionResults(results) ==
    [completions |-> SortByScoreDesc(deduplicateCompletions(ConcatField(results, "completions"))),
     metadata |-> MergeMetadata(results)]

\* Mutant of UniqueFrom: the last occurrence of each element is the one kept.
RECURSIVE UniqueFromLastOccurrence(_, _)
UniqueFromLastOccurrence(s, seen) ==
    IF s = << >> THEN << >>
    ELSE IF \E n \in 2..Len(s) : s[n] = s[1]
         THEN UniqueFromLastOccurrence(Tail(s), seen)
         ELSE << s[1] >> \o UniqueFromLastOccurrence(Tail(s), seen)

\* [...new Set(all)]: first occurrence of each element, in order
RECURSIVE UniqueFrom(_, _)
UniqueFrom(s, seen) ==
    IF s = << >> THEN << >>
    ELSE IF s[1] \in seen
         THEN UniqueFrom(Tail(s), seen)
         ELSE << s[1] >> \o UniqueFrom(Tail(s), seen \cup {s[1]})

\* The value of a property that is absent, and of results[0] of an empty array.
Undefined == "undefined"

\* results[0]?.field
FirstResultField(results, field) ==
    IF results = << >> THEN Undefined
    ELSE IF field \in DOMAIN results[1] THEN results[1][field] ELSE Undefined

\* value || ''
OrEmptyString(value) == IF value \in {Undefined, ""} THEN "" ELSE value

mergeChatResults(results) ==
    [message |-> OrEmptyString(FirstResultField(results, "message")),
     codeBlocks |-> ConcatField(results, "codeBlocks"),
     suggestions |-> UniqueFrom(ConcatField(results, "suggestions"), {}),
     metadata |-> MergeMetadata(results)]

mergeCodeEditResults(results) ==
    [edits |-> ConcatField(results, "edits"),
     explanation |-> OrEmptyString(FirstResultField(results, "explanation")),
     metadata |-> MergeMetadata(results)]

MergeResults(kind, results) ==
    CASE kind = "completion" -> mergeCompletionResults(results)
      [] kind = "chat" -> mergeChatResults(results)
      [] kind = "codeEdit" -> mergeCodeEditResults(results)

\* --------------------------------------------------- inputs of the merger

\* AiCodeEdit: range (start and end line) and replacement text.
CodeEdit(sl, el, t) == [startLineNumber |-> sl, endLineNumber |-> el, text |-> t]

\* Results handed to mergeCompletionResults: the same key with different
\* scores in two results and within one result, equal scores under different
\* keys, texts that hold the key's separator, a result without completions.
MergeCompletionResults ==
    CompletionResults \cup
    { [completions |-> << Completion("X-1", 1, 1, 9), Completion("X", 1, 11, 7),
                          Completion("X", 11, 1, 7) >>,
       metadata |-> [provider |-> "m3"]],
      [completions |-> << Completion("Y", 1, 2, 3), Completion("Y", 1, 2, 10) >>,
       metadata |-> << >>],
      [completions |-> << >>, metadata |-> [model |-> "m5"]] }

\* Results handed to mergeChatResults: empty and non-empty messages, repeated
\* code blocks, suggestions repeated within one result and across results.
MergeChatResults ==
    ChatResults \cup
    { [message |-> "", codeBlocks |-> << >>, suggestions |-> << >>, metadata |-> << >>],
      [message |-> "", codeBlocks |-> << "cb2", "cb1" >>, suggestions |-> << "c", "a", "c" >>,
       metadata |-> [model |-> "m4"]] }

\* Results handed to mergeCodeEditResults: non-empty, empty and absent
\* explanations, identical and overlapping edits.
MergeCodeEditResults ==
    { [edits |-> << CodeEdit(1, 3, "e1") >>, explanation |-> "first",
       metadata |-> [provider |-> "m1"]],
      [edits |-> << CodeEdit(1, 3, "e1"), CodeEdit(2, 4, "e2") >>, explanation |-> "second",
       metadata |-> [provider |-> "m2"]],
      [edits |-> << CodeEdit(2, 2, "e3") >>, explanation |-> "",
       metadata |-> << >>],
      [edits |-> << >>, metadata |-> [model |-> "m4"]] }

MergeResultsOf(kind) ==
    CASE kind = "completion" -> MergeCompletionResults
      [] kind = "chat" -> MergeChatResults
      [] kind = "codeEdit" -> MergeCodeEditResults

\* The arrays of at most n elements of S.
ArraysUpTo(S, n) == UNION { [1..k -> S] : k \in 0..n }

\* ------------------------------------------------------------------- state

VARIABLES
    providers,            \* AiProviderManager.providers: id -> provider object or None
    completionProviders,  \* AiProviderManager.completionProviders
    chatProviders,        \* AiProviderManager.chatProviders
    codeEditProviders,    \* AiProviderManager.codeEditProviders
    handles,              \* the IDisposable handles returned so far, in order of registration
    disposeCalls,         \* how often each provider's own dispose() was invoked
    counter,              \* RequestIdGenerator.counter
    dispatches,           \* the dispatch operations called so far
    calls,                \* the provider methods invoked so far
    events,               \* what was fired on onAiResponse / onAiError
    callsMade,            \* history: number of calls made to the service so far
    mergeKind,            \* AiResultMerger: the merge function applied in this run
    mergeResults,         \* AiResultMerger: its argument, the providers' results in order
    mergeReturn,          \* AiResultMerger: its return value, empty before the call
    currentContext,       \* AiContextManager.currentContext
    contextHistory,       \* AiContextManager.contextHistory
    contextUpdated,       \* onContextUpdated: number of events fired, the last one, and
                          \* what its listeners saw of the manager when it was delivered
    contextLog,           \* history: the context before each setContext since the last clear
    lastContextCall,      \* history: the last call made to the context manager
    contextCalls,         \* history: number of calls made to the context manager so far
    callerContext,        \* the object a caller got from getCurrentContext and holds on to
    signalled,            \* the callers' cancellation tokens that have been cancelled
    operations,           \* AiAssistantService: the operations called so far
    assistantCounter,     \* AssistantRequestIdGenerator.counter
    assistantEvents,      \* what was fired on onAssistantResponse / onAssistantError
    panel,                \* AiPanelWidget: its fields, message history and events fired
    panelCallsMade        \* history: number of panel operations called so far, and of
                          \* those called while an accepted one had not returned

coreVars == << providers, completionProviders, chatProviders, codeEditProviders, handles,
               disposeCalls, counter, dispatches, calls, events, callsMade >>

mergerVars == << mergeKind, mergeResults, mergeReturn >>

contextVars == << currentContext, contextHistory, contextUpdated, contextLog,
                  lastContextCall, contextCalls, callerContext >>

callerVars == << signalled >>

assistantVars == << operations, assistantCounter, assistantEvents >>

panelVars == << panel, panelCallsMade >>

vars == << coreVars, mergerVars, contextVars, callerVars, assistantVars, panelVars >>

\* What the operations of the core service, of the merger on its own and of
\* the context manager leave alone.
outsideCore == << mergerVars, contextVars, callerVars, assistantVars, panelVars >>

outsideMerger == << coreVars, contextVars, callerVars, assistantVars, panelVars >>

outsideContext == << coreVars, mergerVars, callerVars, assistantVars, panelVars >>

registryVars == << providers, completionProviders, chatProviders, codeEditProviders,
                   handles, disposeCalls >>

dispatchVars == << counter, dispatches, calls, events >>

\* A list entry is the provider reference; stamp is a history field naming the
\* register call (= index into handles) that pushed the entry.
Entry(p, n) == [provider |-> p, stamp |-> n]

Handle(k, p) == [kind |-> k, provider |-> p, disposed |-> 0]

NoError == [name |-> "none", source |-> 0]

NoProvidersError == [name |-> "NoProvidersRegistered", source |-> 0]

\* The Error object the i-th provider call of a dispatch rejects with.
ProviderError(i) == [name |-> "ProviderFailure", source |-> i]

KindList(kind) ==
    CASE kind = "completion" -> completionProviders
      [] kind = "chat" -> chatProviders
      [] kind = "codeEdit" -> codeEditProviders

\* ------------------------------------------------------- AiProviderManager

\* Mutant of ArrayPush: Array.prototype.unshift.
ArrayUnshift(list, e) == << e >> \o list

\* Array.prototype.push
ArrayPush(list, e) == Append(list, e)

\* list.indexOf(provider): first position holding that object, 0 when absent
IndexOf(list, p) ==
    IF \E i \in 1..Len(list) : list[i].provider = p
    THEN CHOOSE i \in 1..Len(list) :
            /\ list[i].provider = p
            /\ \A j \in 1..(i - 1) : list[j].provider # p
    ELSE 0

\* list.splice(index, 1)
Splice(list, index) ==
    [i \in 1..(Len(list) - 1) |-> IF i < index THEN list[i] ELSE list[i + 1]]

\* The dispose closure of a kind registration.
RemoveProvider(list, p) ==
    IF IndexOf(list, p) > 0 THEN Splice(list, IndexOf(list, p)) ELSE list

\* Mutant of InvokeProviderDispose: the handle forgets the provider's dispose.
InvokeProviderDisposeNever(count, p) == count

\* provider.dispose()
InvokeProviderDispose(count, p) == [count EXCEPT ![p] = @ + 1]

\* AiProviderManager.isEnabled
isEnabled == \E id \in Ids : providers[id] # None

\* getCompletionProviders / getChatProviders / getCodeEditProviders: [...list]
GetProviders(list) == [i \in 1..Len(list) |-> list[i].provider]

\* History: the kind's list changed while a dispatch of that kind was in flight;
\* churnAt is the number of its provider calls that had settled by then.
MarkChurn(ds, kind) ==
    [d \in 1..Len(ds) |->
        IF ds[d].kind = kind /\ ds[d].outcome = "pending" /\ ds[d].churnAt < 0
        THEN [ds[d] EXCEPT !.churnAt = Len(ds[d].order)]
        ELSE ds[d]]

\* A call to the service is made: the run's budget of calls is not used up.
CountCall ==
    /\ callsMade < MaxCalls
    /\ callsMade' = callsMade + 1

registerAiProvider(p) ==
    /\ CountCall
    /\ providers' = [providers EXCEPT ![ProviderId(p)] = p]
    /\ handles' = Append(handles, Handle("general", p))
    /\ UNCHANGED << completionProviders, chatProviders, codeEditProviders, disposeCalls,
                    dispatchVars >>
    /\ UNCHANGED outsideCore

registerCodeCompletionProvider(p) ==
    /\ CountCall
    /\ completionProviders' = ArrayPush(completionProviders, Entry(p, Len(handles) + 1))
    /\ handles' = Append(handles, Handle("completion", p))
    /\ dispatches' = MarkChurn(dispatches, "completion")
    /\ UNCHANGED << providers, chatProviders, codeEditProviders, disposeCalls,
                    counter, calls, events >>
    /\ UNCHANGED outsideCore

registerChatProvider(p) ==
    /\ CountCall
    /\ chatProviders' = ArrayPush(chatProviders, Entry(p, Len(handles) + 1))
    /\ handles' = Append(handles, Handle("chat", p))
    /\ dispatches' = MarkChurn(dispatches, "chat")
    /\ UNCHANGED << providers, completionProviders, codeEditProviders, disposeCalls,
                    counter, calls, events >>
    /\ UNCHANGED outsideCore

registerCodeEditProvider(p) ==
    /\ CountCall
    /\ codeEditProviders' = ArrayPush(codeEditProviders, Entry(p, Len(handles) + 1))
    /\ handles' = Append(handles, Handle("codeEdit", p))
    /\ dispatches' = MarkChurn(dispatches, "codeEdit")
    /\ UNCHANGED << providers, completionProviders, chatProviders, disposeCalls,
                    counter, calls, events >>
    /\ UNCHANGED outsideCore

\* A handle is a stateless closure: it can be disposed any number of times.
CanDispose(h, kind) ==
    /\ h \in 1..Len(handles)
    /\ handles[h].kind = kind
    /\ CountCall

Disposed(h) == [handles EXCEPT ![h].disposed = @ + 1]

\* dispose of the handle returned by registerAiProvider
disposeAiProvider(h) ==
    /\ CanDispose(h, "general")
    /\ providers' = [providers EXCEPT ![ProviderId(handles[h].provider)] = None]
    /\ disposeCalls' = InvokeProviderDispose(disposeCalls, handles[h].provider)
    /\ handles' = Disposed(h)
    /\ UNCHANGED << completionProviders, chatProviders, codeEditProviders, dispatchVars >>
    /\ UNCHANGED outsideCore

\* dispose of the handle returned by registerCodeCompletionProvider
disposeCodeCompletionProvider(h) ==
    /\ CanDispose(h, "completion")
    /\ completionProviders' = RemoveProvider(completionProviders, handles[h].provider)
    /\ handles' = Disposed(h)
    /\ dispatches' = MarkChurn(dispatches, "completion")
    /\ UNCHANGED << providers, chatProviders, codeEditProviders, disposeCalls,
                    counter, calls, events >>
    /\ UNCHANGED outsideCore

\* dispose of the handle returned by registerChatProvider
disposeChatProvider(h) ==
    /\ CanDispose(h, "chat")
    /\ chatProviders' = RemoveProvider(chatProviders, handles[h].provider)
    /\ handles' = Disposed(h)
    /\ dispatches' = MarkChurn(dispatches, "chat")
    /\ UNCHANGED << providers, completionProviders, codeEditProviders, disposeCalls,
                    counter, calls, events >>
    /\ UNCHANGED outsideCore

\* dispose of the handle returned by registerCodeEditProvider
disposeCodeEditProvider(h) ==
    /\ CanDispose(h, "codeEdit")
    /\ codeEditProviders' = RemoveProvider(codeEditProviders, handles[h].provider)
    /\ handles' = Disposed(h)
    /\ dispatches' = MarkChurn(dispatches, "codeEdit")
    /\ UNCHANGED << providers, completionProviders, chatProviders, disposeCalls,
                    counter, calls, events >>
    /\ UNCHANGED outsideCore


\* ------------------------------------------------------ RequestIdGenerator

\* Mutant of GenerateRequestId: the id is made of the time and the random part.
GenerateRequestIdNoCounter(now, count, rnd) == "ai-" \o ToString(now) \o "-" \o rnd

\* `ai-${Date.now()}-${this.counter++}-${Math.random()...}`
GenerateRequestId(now, count, rnd) ==
    "ai-" \o ToString(now) \o "-" \o ToString(count) \o "-" \o rnd

\* ------------------------------------------------------------ AiCoreService

OperationOf(kind) ==
    CASE kind = "completion" -> "getCompletion"
      [] kind = "chat" -> "getChatResponse"
      [] kind = "codeEdit" -> "getCodeEdit"

MethodOf(kind) ==
    CASE kind = "completion" -> "provideCompletion"
      [] kind = "chat" -> "provideChatResponse"
      [] kind = "codeEdit" -> "provideCodeEdit"

\* validateProvidersExist: passes iff providerManager.isEnabled()
validateProvidersExist == isEnabled

\* State of Promise.all(promises) right after it is created.
PromiseAllCreate(n) ==
    [status |-> IF n = 0 THEN "fulfilled" ELSE "pending", error |-> NoError]

\* One dispatch.  provider/returned/order are the provider calls themselves
\* (order: the indices in the order in which the calls settled); wrapped/values
\* are the promises of executeWithProviders' map; all is its Promise.all.
\* listAtCall, churnAt and signalledAt are history fields; signalledAt is the
\* number of the dispatch's provider calls that had settled when its token was
\* cancelled, -1 while it is not.
NewDispatch(kind, requestId, input, context, token, list, participants) ==
    [kind |-> kind,
     requestId |-> requestId,
     input |-> input,
     context |-> context,
     token |-> token,
     listAtCall |-> [i \in 1..Len(list) |-> list[i].provider],
     participants |-> participants,
     provider |-> [i \in 1..Len(participants) |-> "pending"],
     returned |-> [i \in 1..Len(participants) |-> << >>],
     order |-> << >>,
     wrapped |-> [i \in 1..Len(participants) |-> "pending"],
     values |-> [i \in 1..Len(participants) |-> << >>],
     all |-> PromiseAllCreate(Len(participants)),
     outcome |-> "pending",
     result |-> << >>,
     error |-> NoError,
     churnAt |-> -1,
     signalledAt |-> IF token \in signalled THEN 0 ELSE -1]

\* The dispatch as it is when validateProvidersExist threw: the catch block ran.
FailedDispatch(kind, requestId, input, context, token, list) ==
    [NewDispatch(kind, requestId, input, context, token, list, << >>)
        EXCEPT !.all = [status |-> "none", error |-> NoError],
               !.outcome = "rejected",
               !.error = NoProvidersError]

\* Mutant of Invocations: the providers are called with CancellationToken.None.
InvocationsWithTokenNone(d, kind, input, context, token, participants) ==
    [i \in 1..Len(participants) |->
        [dispatch |-> d, index |-> i, provider |-> participants[i], method |-> MethodOf(kind),
         input |-> input, context |-> context, token |-> None]]

\* provider => provider.provideX(input, context, token), for every provider in order
Invocations(d, kind, input, context, token, participants) ==
    [i \in 1..Len(participants) |->
        [dispatch |-> d, index |-> i, provider |-> participants[i], method |-> MethodOf(kind),
         input |-> input, context |-> context, token |-> token]]

\* fireResponseEvent
ResponseEvent(requestId, kind, result) ==
    [bus |-> "onAiResponse", requestId |-> requestId, type |-> kind, result |-> << result >>,
     error |-> NoError, context |-> ""]

\* Mutant of ErrorEvent: the error is reported as a response.
ErrorEventAsResponse(requestId, error, operation) ==
    [bus |-> "onAiResponse", requestId |-> requestId, type |-> operation, result |-> << >>,
     error |-> error, context |-> operation]

\* fireErrorEvent
ErrorEvent(requestId, error, operation) ==
    [bus |-> "onAiError", requestId |-> requestId, type |-> "", result |-> << >>,
     error |-> error, context |-> operation]

\* The synchronous part of getCompletion / getChatResponse / getCodeEdit, up to
\* the await of executeWithProviders: what it does to the core service.
DispatchStep(kind, list, input, context, token, now, rnd) ==
    /\ CountCall
    /\ counter' = counter + 1
    /\ LET requestId == GenerateRequestId(now, counter, rnd)
           d == Len(dispatches) + 1
       IN  IF ~validateProvidersExist
           THEN /\ dispatches' = Append(dispatches,
                        FailedDispatch(kind, requestId, input, context, token, list))
                /\ events' = Append(events,
                        ErrorEvent(requestId, NoProvidersError, OperationOf(kind)))
                /\ calls' = calls
           ELSE LET participants == GetProviders(list)
                IN  /\ dispatches' = Append(dispatches,
                            NewDispatch(kind, requestId, input, context, token, list,
                                        participants))
                    /\ calls' = calls \o
                            Invocations(d, kind, input, context, token, participants)
                    /\ events' = events
    /\ UNCHANGED registryVars

\* getCompletion / getChatResponse / getCodeEdit called from outside the
\* assistant service.
Dispatch(kind, list, input, context, token, now, rnd) ==
    /\ DispatchStep(kind, list, input, context, token, now, rnd)
    /\ UNCHANGED outsideCore

getCompletion(input, context, token, now, rnd) ==
    Dispatch("completion", completionProviders, input, context, token, now, rnd)

getChatResponse(input, context, token, now, rnd) ==
    Dispatch("chat", chatProviders, input, context, token, now, rnd)

getCodeEdit(input, context, token, now, rnd) ==
    Dispatch("codeEdit", codeEditProviders, input, context, token, now, rnd)

\* executeWithProviders: the i-th wrapper returns the value; Promise.all fulfils
\* once every wrapper has.
OnProviderResolved(d, i, v) ==
    LET wrapped == [d.wrapped EXCEPT ![i] = "resolved"]
    IN  [d EXCEPT !.wrapped = wrapped,
                  !.values = [d.values EXCEPT ![i] = << v >>],
                  !.all = IF d.all.status = "pending"
                             /\ \A j \in 1..Len(wrapped) : wrapped[j] = "resolved"
                          THEN [status |-> "fulfilled", error |-> NoError]
                          ELSE d.all]

\* Mutant of OnProviderRejected: the wrapper logs the error and returns an empty
\* result in its place.
OnProviderRejectedSwallowed(d, i) ==
    LET wrapped == [d.wrapped EXCEPT ![i] = "resolved"]
    IN  [d EXCEPT !.wrapped = wrapped,
                  !.values = [d.values EXCEPT ![i] = << MergeResults(d.kind, << >>) >>],
                  !.all = IF d.all.status = "pending"
                             /\ \A j \in 1..Len(wrapped) : wrapped[j] = "resolved"
                          THEN [status |-> "fulfilled", error |-> NoError]
                          ELSE d.all]

\* Mutant of OnProviderRejected: every rejection overwrites the reported error.
OnProviderRejectedLastWins(d, i) ==
    [d EXCEPT !.wrapped = [d.wrapped EXCEPT ![i] = "rejected"],
              !.all = [status |-> "rejected", error |-> ProviderError(i)]]

\* executeWithProviders: the i-th wrapper logs and rethrows; Promise.all rejects
\* with the first rejection it sees.
OnProviderRejected(d, i) ==
    [d EXCEPT !.wrapped = [d.wrapped EXCEPT ![i] = "rejected"],
              !.all = IF d.all.status = "pending"
                      THEN [status |-> "rejected", error |-> ProviderError(i)]
                      ELSE d.all]

\* Mutant of PromiseAllValues: the values in the order the calls completed.
PromiseAllValuesCompletionOrder(d) ==
    [k \in 1..Len(d.participants) |-> d.values[d.order[k]][1]]

\* Mutant of PromiseAllValues: only the values of the providers that are still
\* in the kind's list when the dispatch continues.
PromiseAllValuesStillRegistered(d) ==
    LET positions == SelectSeq([i \in 1..Len(d.participants) |-> i],
                               LAMBDA i : IndexOf(KindList(d.kind), d.participants[i]) > 0)
    IN  [k \in 1..Len(positions) |-> d.values[positions[k]][1]]

\* The values Promise.all fulfils with: the wrappers' values by position.
PromiseAllValues(d) == [i \in 1..Len(d.participants) |-> d.values[i][1]]

\* A provider call resolves with value v.
ProviderResolves(d, i, v) ==
    /\ d \in 1..Len(dispatches)
    /\ i \in 1..Len(dispatches[d].participants)
    /\ dispatches[d].provider[i] = "pending"
    /\ v \in ResultsOf(dispatches[d].kind)
    /\ dispatches' = [dispatches EXCEPT ![d] =
            OnProviderResolved([@ EXCEPT !.provider[i] = "resolved",
                                         !.returned[i] = << v >>,
                                         !.order = Append(@, i)], i, v)]
    /\ UNCHANGED << registryVars, counter, calls, events, callsMade >>
    /\ UNCHANGED outsideCore

\* A provider call rejects.
ProviderRejects(d, i) ==
    /\ d \in 1..Len(dispatches)
    /\ i \in 1..Len(dispatches[d].participants)
    /\ dispatches[d].provider[i] = "pending"
    /\ dispatches' = [dispatches EXCEPT ![d] =
            OnProviderRejected([@ EXCEPT !.provider[i] = "rejected",
                                         !.order = Append(@, i)], i)]
    /\ UNCHANGED << registryVars, counter, calls, events, callsMade >>
    /\ UNCHANGED outsideCore

\* Mutant of Continue: the promise settles and the event is not fired by then.
ContinueSettlesFirst(d) ==
    /\ d \in 1..Len(dispatches)
    /\ dispatches[d].outcome = "pending"
    /\ dispatches[d].all.status # "pending"
    /\ LET r == dispatches[d]
       IN  IF r.all.status = "fulfilled"
           THEN dispatches' = [dispatches EXCEPT
                    ![d].outcome = "resolved",
                    ![d].result = << MergeResults(r.kind, PromiseAllValues(r)) >>]
           ELSE dispatches' = [dispatches EXCEPT ![d].outcome = "rejected",
                                                 ![d].error = r.all.error]
    /\ UNCHANGED << registryVars, counter, calls, events, callsMade >>
    /\ UNCHANGED outsideCore

\* The rest of getCompletion / getChatResponse / getCodeEdit after the await:
\* merge, fire the response event and return; or the catch block.
Continue(d) ==
    /\ d \in 1..Len(dispatches)
    /\ dispatches[d].outcome = "pending"
    /\ dispatches[d].all.status # "pending"
    /\ LET r == dispatches[d]
       IN  IF r.all.status = "fulfilled"
           THEN LET merged == MergeResults(r.kind, PromiseAllValues(r))
                IN  /\ events' = Append(events, ResponseEvent(r.requestId, r.kind, merged))
                    /\ dispatches' = [dispatches EXCEPT ![d].outcome = "resolved",
                                                        ![d].result = << merged >>]
           ELSE /\ events' = Append(events,
                        ErrorEvent(r.requestId, r.all.error, OperationOf(r.kind)))
                /\ dispatches' = [dispatches EXCEPT ![d].outcome = "rejected",
                                                    ![d].error = r.all.error]
    /\ UNCHANGED << registryVars, counter, calls, callsMade >>
    /\ UNCHANGED outsideCore

\* History: the token of a dispatch is cancelled.
MarkSignalled(ds, token) ==
    [d \in 1..Len(ds) |->
        IF ds[d].token = token /\ ds[d].signalledAt < 0
        THEN [ds[d] EXCEPT !.signalledAt = Len(ds[d].order)]
        ELSE ds[d]]

\* The owner of a token cancels it.  The service has no listener on the token
\* and never reads it: nothing else happens.
CancelToken(token) ==
    /\ token \notin signalled
    /\ \E d \in 1..Len(dispatches) :
            dispatches[d].token = token /\ dispatches[d].outcome = "pending"
    /\ signalled' = signalled \cup {token}
    /\ dispatches' = MarkSignalled(dispatches, token)
    /\ UNCHANGED << registryVars, counter, calls, events, callsMade, mergerVars, contextVars,
                    assistantVars, panelVars >>

\* --------------------------------------------- AiResultMerger, on its own

\* AiResultMerger.mergeCompletionResults(results) is called.
CallMergeCompletionResults ==
    /\ mergeKind = "completion"
    /\ mergeReturn = << >>
    /\ mergeReturn' = << mergeCompletionResults(mergeResults) >>
    /\ UNCHANGED << mergeKind, mergeResults, outsideMerger >>

\* AiResultMerger.mergeChatResults(results) is called.
CallMergeChatResults ==
    /\ mergeKind = "chat"
    /\ mergeReturn = << >>
    /\ mergeReturn' = << mergeChatResults(mergeResults) >>
    /\ UNCHANGED << mergeKind, mergeResults, outsideMerger >>

\* AiResultMerger.mergeCodeEditResults(results) is called.
CallMergeCodeEditResults ==
    /\ mergeKind = "codeEdit"
    /\ mergeReturn = << >>
    /\ mergeReturn' = << mergeCodeEditResults(mergeResults) >>
    /\ UNCHANGED << mergeKind, mergeResults, outsideMerger >>

\* -------------------------------------------------------- AiContextManager

\* private readonly maxHistorySize = 10
maxHistorySize == 10

\* AiContext: the fields that are set, with their values.  {} has none.
EmptyContext == << >>

ContextFields == {"language", "framework"}

\* Partial<AiContext> values setContext is called with.
ContextUpdates ==
    { [language |-> "ts"], [language |-> "js"], [framework |-> "react"] }

\* Mutant of Spread: the second object replaces the first.
SpreadSecondOnly(a, b) == b

\* { ...a, ...b }
Spread(a, b) ==
    [k \in (DOMAIN a) \cup (DOMAIN b) |-> IF k \in DOMAIN b THEN b[k] ELSE a[k]]

\* Mutant of ArrayShift: Array.prototype.pop.
ArrayPop(list) == SubSeq(list, 1, Len(list) - 1)

\* Array.prototype.shift
ArrayShift(list) == Tail(list)

\* Mutant of ClearArray: the array is left as it is.
ClearArrayNever(list) == list

\* list.length = 0
ClearArray(list) == << >>

\* Mutant of addToHistory: no size limit.
addToHistoryUnbounded(history, context) == ArrayPush(history, context)

addToHistory(history, context) ==
    LET pushed == ArrayPush(history, context)
    IN  IF Len(pushed) > maxHistorySize THEN ArrayShift(pushed) ELSE pushed

getCurrentContext == Spread(EmptyContext, currentContext)

\* Mutant of ObjectLiteral: no object is made, the reference handed out is the
\* manager's own currentContext.
NoObjectLiteral(value) == [object |-> "current", value |-> value]

\* { ... }: an object of its own, referenced by nobody else
ObjectLiteral(value) == [object |-> "own", value |-> value]

\* The caller holds no object.
NoObject == [object |-> "none", value |-> EmptyContext]

\* this.currentContext = ...: the manager's field refers to another object,
\* and an object that was the current one is no longer.
Detach(held) == IF held.object = "current" THEN [held EXCEPT !.object = "own"] ELSE held

\* What a caller does to the top-level fields of an object it holds.
Mutations ==
    { [op |-> "set", field |-> "language", value |-> "py"],
      [op |-> "set", field |-> "framework", value |-> "vue"],
      [op |-> "delete", field |-> "language", value |-> ""] }

\* object[field] = value, delete object[field]
Mutate(object, m) ==
    IF m.op = "set"
    THEN [f \in (DOMAIN object) \cup {m.field} |-> IF f = m.field THEN m.value ELSE object[f]]
    ELSE [f \in (DOMAIN object) \ {m.field} |-> object[f]]

\* Mutant of ContextUpdateEvent: the event carries the update as its context.
ContextUpdateEventOfChanges(context, changes) == [context |-> changes, changes |-> changes]

\* AiContextUpdateEvent
ContextUpdateEvent(context, changes) == [context |-> context, changes |-> changes]

\* History: the call, its argument, and the context and the length of the
\* history at the moment of the call.
ContextCall(name, changes) ==
    [name |-> name, changes |-> changes, before |-> currentContext,
     historyBefore |-> Len(contextHistory)]

\* A call to the context manager is made: the run's budget is not used up.
CountContextCall ==
    /\ contextCalls < MaxContextCalls
    /\ contextCalls' = contextCalls + 1

\* Mutant of ManagerAtFire: the event is fired before the update is applied.
ManagerBeforeUpdate(context) ==
    [context |-> getCurrentContext, history |-> contextHistory]

\* What a listener that reads the manager while onContextUpdated fires gets
\* from getCurrentContext() and finds in the history: setContext assigns the
\* new context and calls addToHistory before it fires.
ManagerAtFire(context) ==
    [context |-> Spread(EmptyContext, Spread(currentContext, context)),
     history |-> addToHistory(contextHistory, Spread(EmptyContext, currentContext))]

setContext(context) ==
    /\ CountContextCall
    /\ LET oldContext == Spread(EmptyContext, currentContext)
       IN  /\ currentContext' = Spread(currentContext, context)
           /\ contextHistory' = addToHistory(contextHistory, oldContext)
    /\ contextUpdated' = [fired |-> contextUpdated.fired + 1,
                          last |-> ContextUpdateEvent(currentContext', context),
                          seen |-> ManagerAtFire(context)]
    /\ contextLog' = Append(contextLog, currentContext)
    /\ lastContextCall' = ContextCall("setContext", context)
    /\ callerContext' = [callerContext EXCEPT !.held = Detach(@)]
    /\ UNCHANGED outsideContext

clearContext ==
    /\ CountContextCall
    /\ currentContext' = EmptyContext
    /\ contextHistory' = ClearArray(contextHistory)
    /\ contextLog' = << >>
    /\ lastContextCall' = ContextCall("clearContext", EmptyContext)
    /\ callerContext' = [callerContext EXCEPT !.held = Detach(@)]
    /\ UNCHANGED << contextUpdated, outsideContext >>

\* A caller calls getCurrentContext() and keeps what it returns.
CallGetCurrentContext ==
    /\ callerContext' = [held |-> ObjectLiteral(getCurrentContext),
                         reads |-> callerContext.reads + 1,
                         mutations |-> callerContext.mutations]
    /\ UNCHANGED << currentContext, contextHistory, contextUpdated, contextLog,
                    lastContextCall, contextCalls, outsideContext >>

\* The caller adds, changes or removes a top-level field of the object it
\* holds; the manager's current context changes with it when that is the
\* same object.
MutateReturnedContext(m) ==
    /\ callerContext.held.object # "none"
    /\ callerContext' = [callerContext EXCEPT !.held.value = Mutate(@, m),
                                              !.mutations = @ + 1]
    /\ currentContext' = IF callerContext.held.object = "current"
                         THEN Mutate(currentContext, m)
                         ELSE currentContext
    /\ UNCHANGED << contextHistory, contextUpdated, contextLog, lastContextCall,
                    contextCalls, outsideContext >>


\* ---------------------------------------------- AiCoreService, context stubs

\* async getWorkspaceContext() { throw new Error('Workspace context not implemented') }
WorkspaceContextError == [name |-> "WorkspaceContextNotImplemented", source |-> 0]

getWorkspaceContext == [status |-> "rejected", error |-> WorkspaceContextError]

\* async getFileContext(uri) { throw new Error('File context not implemented') }
FileContextError == [name |-> "FileContextNotImplemented", source |-> 0]

getFileContext == [status |-> "rejected", error |-> FileContextError]

\* ------------------------------------------------ AiPanelWidget, listeners

\* The widget's fields.  constructed: the widget exists, and its listeners are
\* on the assistant's buses.  messages is MessageHistoryManager.messages,
\* events what the widget fired on its own buses.  operation, operationType
\* and message are the locals of the accepted panel operation that has not
\* returned yet: the assistant operation it awaits (0 when there is none), its
\* name and its argument.
NewPanel(constructed) ==
    [constructed |-> constructed, isLoading |-> FALSE, messages |-> << >>,
     events |-> << >>, operation |-> 0, operationType |-> "", message |-> ""]

\* error.message
MessageOf(error) == error.name

\* AiPanelMessage; operation is a history field, the assistant operation the
\* message was added for.
PanelMessage(type, content, o) == [type |-> type, content |-> content, operation |-> o]

\* What the widget fires on onError, onResponseReceived and onMessageSent;
\* operation is a history field, the assistant operation the event is about.
PanelErrorEvent(context, error, o) ==
    [bus |-> "onError", type |-> "", content |-> MessageOf(error), context |-> context,
     operation |-> o]

PanelResponseEvent(type, content, o) ==
    [bus |-> "onResponseReceived", type |-> type, content |-> content, context |-> "",
     operation |-> o]

PanelMessageSentEvent(message, o) ==
    [bus |-> "onMessageSent", type |-> "", content |-> message, context |-> "",
     operation |-> o]

\* AiPanelWidget.handleError: fires onError and adds the error message to the
\* history.
handleError(p, context, error, o) ==
    [p EXCEPT !.events = Append(@, PanelErrorEvent(context, error, o)),
              !.messages = Append(@, PanelMessage("assistant",
                    "Sorry, I encountered an error: " \o MessageOf(error), o))]

\* The widget's listener on onAssistantError, run while assistant operation o
\* fires its error event: handleError(event.context, event.error).
handleAssistantError(p, o, context, error) ==
    IF p.constructed THEN handleError(p, context, error, o) ELSE p

\* ------------------------------------------------------ AiAssistantService

\* `assistant-${Date.now()}-${this.counter++}-${Math.random()...}`
AssistantGenerateRequestId(now, count, rnd) ==
    "assistant-" \o ToString(now) \o "-" \o ToString(count) \o "-" \o rnd

\* The operations of the assistant service that are called in the runs.
AssistantOperations == {"chat", "explainCode", "chatWithFile"}

\* The prompt an operation sends to the core service for the text it is called with.
PromptOf(name, text) ==
    CASE name = "explainCode" -> "Please explain this code:\n\n" \o text
      [] OTHER -> text

\* The additional context an operation passes to buildContext: chat is called
\* with a context argument, the others without one.
AdditionalContexts(name) ==
    IF name = "chat" THEN {[framework |-> "vue"]} ELSE {EmptyContext}

\* What the operation returns for the core service's chat response.
ResultOf(name, response) ==
    IF name = "explainCode" THEN response.message ELSE response

\* Mutant of buildContext: the context is taken from the oldest snapshot of the
\* history when there is one.
buildContextFromHistory(additionalContext) ==
    Spread(IF contextHistory = << >> THEN getCurrentContext ELSE contextHistory[1],
           additionalContext)

\* AiOperationExecutor.buildContext, up to its await:
\* { ...this.contextManager.getCurrentContext(), ...additionalContext }
buildContext(additionalContext) == Spread(getCurrentContext, additionalContext)

\* One operation, right after it was called.  awaiting is the call whose promise
\* the operation waits for; context is the object buildContext made, once it
\* has; dispatch is the core dispatch the operation made, 0 before.  failed,
\* contextAtCall, historyAtCall, chatProvidersAtCall and contextAtDispatch are
\* history fields: the awaited calls that rejected so far, the manager's
\* context and history and the registered chat providers at the call, and the
\* manager's context when the core service was called.
NewOperation(name, requestId, text, additional) ==
    LET first == name \in {"chatWithFile"}
        context == buildContext(additional)
    IN  [name |-> name,
         requestId |-> requestId,
         text |-> text,
         additional |-> additional,
         awaiting |-> IF first THEN "getFileContext"
                      ELSE IF "workspace" \in DOMAIN context THEN "buildContext"
                      ELSE "getWorkspaceContext",
         context |-> IF first THEN << >> ELSE << context >>,
         dispatch |-> 0,
         failed |-> {},
         outcome |-> "pending",
         result |-> << >>,
         error |-> NoError,
         contextAtCall |-> currentContext,
         historyAtCall |-> contextHistory,
         chatProvidersAtCall |-> GetProviders(chatProviders),
         contextAtDispatch |-> << >>]

\* onAssistantResponse.fire; coreEvents is a history field, the number of
\* events the core service had fired when this one is fired.
AssistantResponseEvent(requestId, type, result) ==
    [bus |-> "onAssistantResponse", requestId |-> requestId, type |-> type,
     result |-> << result >>, error |-> NoError, context |-> "",
     coreEvents |-> Len(events)]

\* Mutant of AssistantErrorEvent: the error is reported as a response.
AssistantErrorEventAsResponse(requestId, error, operationType) ==
    [bus |-> "onAssistantResponse", requestId |-> requestId, type |-> operationType,
     result |-> << >>, error |-> error, context |-> operationType,
     coreEvents |-> Len(events)]

\* onAssistantError.fire
AssistantErrorEvent(requestId, error, operationType) ==
    [bus |-> "onAssistantError", requestId |-> requestId, type |-> "",
     result |-> << >>, error |-> error, context |-> operationType,
     coreEvents |-> Len(events)]

\* An operation of the assistant service is called: executeOperation generates
\* the request id and runs the operation up to its first await.
CallOperationStep(name, text, additional, now, rnd) ==
    /\ assistantCounter' = assistantCounter + 1
    /\ operations' = Append(operations,
            NewOperation(name, AssistantGenerateRequestId(now, assistantCounter, rnd),
                         text, additional))
    /\ UNCHANGED << assistantEvents, coreVars, mergerVars, contextVars, callerVars >>

\* An operation of the assistant service is called by another caller than the
\* panel.
CallOperation(name, text, additional, now, rnd) ==
    /\ CallOperationStep(name, text, additional, now, rnd)
    /\ UNCHANGED panelVars

\* The await of getFileContext ends: the call rejected, the operation throws
\* and executeOperation's catch block fires the error event and rethrows.
FileContextReturns(o) ==
    /\ o \in 1..Len(operations)
    /\ operations[o].awaiting = "getFileContext"
    /\ getFileContext.status = "rejected"
    /\ operations' = [operations EXCEPT ![o].awaiting = "nothing",
                                        ![o].failed = @ \cup {"getFileContext"},
                                        ![o].outcome = "rejected",
                                        ![o].error = getFileContext.error]
    /\ assistantEvents' = Append(assistantEvents,
            AssistantErrorEvent(operations[o].requestId, getFileContext.error,
                                operations[o].name))
    /\ panel' = handleAssistantError(panel, o, operations[o].name, getFileContext.error)
    /\ UNCHANGED << assistantCounter, coreVars, mergerVars, contextVars, callerVars,
                    panelCallsMade >>

\* Mutant of aiContext: the current context is read again after the await.
aiContextReadAfterAwait(op) == buildContext(op.additional)

\* const aiContext = await this.operationExecutor.buildContext(...): the object
\* buildContext made before its await.
aiContext(op) == op.context[1]

\* The await in or of buildContext ends.  The rejection of getWorkspaceContext
\* is caught and logged, context.workspace stays unset, buildContext returns
\* the context and the operation calls getChatResponse with it and
\* CancellationToken.None.
BuildContextReturns(o, now, rnd) ==
    /\ o \in 1..Len(operations)
    /\ operations[o].awaiting \in {"getWorkspaceContext", "buildContext"}
    /\ LET op == operations[o]
           swallowed == IF op.awaiting = "getWorkspaceContext"
                           /\ getWorkspaceContext.status = "rejected"
                        THEN {"getWorkspaceContext"} ELSE {}
       IN  /\ DispatchStep("chat", chatProviders, PromptOf(op.name, op.text),
                           aiContext(op), None, now, rnd)
           /\ operations' = [operations EXCEPT ![o].awaiting = "getChatResponse",
                                               ![o].failed = @ \cup swallowed,
                                               ![o].contextAtDispatch = << currentContext >>,
                                               ![o].dispatch = Len(dispatches) + 1]
    /\ UNCHANGED << assistantCounter, assistantEvents, mergerVars, contextVars, callerVars,
                    panelVars >>

\* The await of getChatResponse ends: executeOperation fires the response event
\* and returns the operation's result, or its catch block fires the error event
\* and rethrows.
OperationContinues(o) ==
    /\ o \in 1..Len(operations)
    /\ operations[o].awaiting = "getChatResponse"
    /\ dispatches[operations[o].dispatch].outcome # "pending"
    /\ LET op == operations[o]
           r == dispatches[op.dispatch]
       IN  IF r.outcome = "resolved"
           THEN LET result == ResultOf(op.name, r.result[1])
                IN  /\ assistantEvents' = Append(assistantEvents,
                            AssistantResponseEvent(op.requestId, op.name, result))
                    /\ operations' = [operations EXCEPT ![o].awaiting = "nothing",
                                                        ![o].outcome = "resolved",
                                                        ![o].result = << result >>]
                    /\ panel' = panel
           ELSE /\ assistantEvents' = Append(assistantEvents,
                        AssistantErrorEvent(op.requestId, r.error, op.name))
                /\ operations' = [operations EXCEPT ![o].awaiting = "nothing",
                                                    ![o].failed = @ \cup {"getChatResponse"},
                                                    ![o].outcome = "rejected",
                                                    ![o].error = r.error]
                /\ panel' = handleAssistantError(panel, o, op.name, r.error)
    /\ UNCHANGED << assistantCounter, coreVars, mergerVars, contextVars, callerVars,
                    panelCallsMade >>

\* ----------------------------------------------- AiPanelWidget, operations

\* The operations of the panel that are called in the runs.
PanelOperations == {"sendMessage", "explainCode"}

\* The texts a panel operation is called with; sendMessage also gets a blank one.
PanelTexts(name) == IF name = "sendMessage" THEN {"in1", " "} ELSE {"in1"}

\* message.trim(), for texts that are blank or have no blanks around them.
trim(message) == IF message \in {"", " "} THEN "" ELSE message

\* The operation of the assistant service a panel operation calls.
AssistantOperationOf(name) == IF name = "sendMessage" THEN "chat" ELSE name

\* The content of the user message a panel operation adds to the history.
UserMessageOf(name, text) ==
    IF name = "explainCode" THEN "Explain this code:\n\n" \o text ELSE text

\* formatResponse: the type and the content of the panel's response.
PanelResponseOf(name, result, o) ==
    IF name = "sendMessage" THEN PanelResponseEvent("chat", result.message, o)
    ELSE PanelResponseEvent("explain", result, o)

\* Mutant of ReturnsAtOnce: the loading flag is not looked at.
ReturnsAtOnceWhenBlank(name, message) == name = "sendMessage" /\ trim(message) = ""

\* if (this.isLoading) return;   sendMessage: if (this.isLoading || !message.trim()) return;
ReturnsAtOnce(name, message) ==
    \/ panel.isLoading
    \/ name = "sendMessage" /\ trim(message) = ""

\* A panel operation is called.  It returns at once, or sets the loading flag,
\* adds the user message and calls the assistant service, whose operation runs
\* up to its first await.
PanelCall(name, text, now, rnd) ==
    /\ panelCallsMade.made < MaxPanelCalls
    /\ panelCallsMade' = [made |-> panelCallsMade.made + 1,
                          inFlight |-> panelCallsMade.inFlight
                                        + (IF panel.operation # 0 THEN 1 ELSE 0)]
    /\ IF ReturnsAtOnce(name, text)
       THEN UNCHANGED << panel, coreVars, mergerVars, contextVars, callerVars, assistantVars >>
       ELSE /\ CallOperationStep(AssistantOperationOf(name), text, EmptyContext, now, rnd)
            /\ panel' = [panel EXCEPT
                    !.isLoading = TRUE,
                    !.messages = Append(@, PanelMessage("user", UserMessageOf(name, text),
                                                        Len(operations) + 1)),
                    !.operation = Len(operations) + 1,
                    !.operationType = name,
                    !.message = text]

\* Mutant of LoadingAfter: the flag is not reset after a failure.
LoadingAfterStaysOnFailure(outcome) == outcome = "rejected"

\* this.setLoadingState(false), reached whatever the outcome of the assistant
\* call: AiOperationManager.executeOperation catches every error.
LoadingAfter(outcome) == FALSE

\* AiOperationManager.executeOperation after its await: the response is
\* formatted and passed to onResponse, or the catch block passes the error to
\* onError.
executeOperationReturns(p, op) ==
    IF op.outcome = "resolved"
    THEN [p EXCEPT !.events = Append(@, PanelResponseOf(p.operationType, op.result[1],
                                                        p.operation))]
    ELSE [p EXCEPT !.events = Append(@, PanelErrorEvent(p.operationType, op.error,
                                                        p.operation))]

\* The assistant call of the accepted panel operation has settled: the rest of
\* executeOperation runs, sendMessage fires onMessageSent, and the loading flag
\* is reset.
PanelContinues ==
    /\ panel.operation # 0
    /\ operations[panel.operation].outcome # "pending"
    /\ LET op == operations[panel.operation]
           returned == executeOperationReturns(panel, op)
           sent == IF panel.operationType = "sendMessage"
                   THEN [returned EXCEPT !.events =
                            Append(@, PanelMessageSentEvent(panel.message, panel.operation))]
                   ELSE returned
       IN  panel' = [sent EXCEPT !.isLoading = LoadingAfter(op.outcome),
                                 !.operation = 0,
                                 !.operationType = "",
                                 !.message = ""]
    /\ UNCHANGED << panelCallsMade, coreVars, mergerVars, contextVars, callerVars,
                    assistantVars >>

\* ----------------------------------------------------------- specification

\* The core service after construction.
CoreInit ==
    /\ providers = [id \in Ids |-> None]
    /\ completionProviders = << >>
    /\ chatProviders = << >>
    /\ codeEditProviders = << >>
    /\ handles = << >>
    /\ disposeCalls = [p \in AllProviders |-> 0]
    /\ counter = 0
    /\ dispatches = << >>
    /\ calls = << >>
    /\ events = << >>
    /\ callsMade = 0

\* No merge function is called on its own.
MergerIdle ==
    /\ mergeKind = None
    /\ mergeResults = << >>
    /\ mergeReturn = << >>

\* The context manager after construction.
ContextInit ==
    /\ currentContext = EmptyContext
    /\ contextHistory = << >>
    /\ contextUpdated = [fired |-> 0, last |-> ContextUpdateEvent(EmptyContext, EmptyContext),
                         seen |-> [context |-> EmptyContext, history |-> << >>]]
    /\ contextLog = << >>
    /\ lastContextCall = ContextCall("none", EmptyContext)
    /\ contextCalls = 0
    /\ callerContext = [held |-> NoObject, reads |-> 0, mutations |-> 0]

\* No token has been cancelled.
CallerInit == signalled = {}

\* The assistant service after construction.
AssistantInit ==
    /\ operations = << >>
    /\ assistantCounter = 0
    /\ assistantEvents = << >>

\* No panel widget was constructed.
PanelAbsent ==
    /\ panel = NewPanel(FALSE)
    /\ panelCallsMade = [made |-> 0, inFlight |-> 0]

\* The panel widget after construction: it listens to the assistant's buses.
PanelInit ==
    /\ panel = NewPanel(TRUE)
    /\ panelCallsMade = [made |-> 0, inFlight |-> 0]

Init == CoreInit /\ MergerIdle /\ ContextInit /\ CallerInit /\ AssistantInit /\ PanelAbsent

\* The registry operations, on the provider objects of P.
RegistryNext(P) ==
    \/ \E p \in P : registerAiProvider(p)
    \/ \E p \in P : registerCodeCompletionProvider(p)
    \/ \E p \in P : registerChatProvider(p)
    \/ \E p \in P : registerCodeEditProvider(p)
    \/ \E h \in 1..Len(handles) : disposeAiProvider(h)
    \/ \E h \in 1..Len(handles) : disposeCodeCompletionProvider(h)
    \/ \E h \in 1..Len(handles) : disposeChatProvider(h)
    \/ \E h \in 1..Len(handles) : disposeCodeEditProvider(h)

Next ==
    \/ RegistryNext(Providers)
    \/ \E i \in Inputs, c \in Contexts, t \in Tokens, now \in Clock, rnd \in Randoms :
            getCompletion(i, c, t, now, rnd)
    \/ \E i \in Inputs, c \in Contexts, t \in Tokens, now \in Clock, rnd \in Randoms :
            getChatResponse(i, c, t, now, rnd)
    \/ \E i \in Inputs, c \in Contexts, t \in Tokens, now \in Clock, rnd \in Randoms :
            getCodeEdit(i, c, t, now, rnd)
    \/ \E d \in 1..Len(dispatches) :
            \E i \in 1..Len(dispatches[d].participants), v \in ResultsOf(dispatches[d].kind) :
                ProviderResolves(d, i, v)
    \/ \E d \in 1..Len(dispatches) :
            \E i \in 1..Len(dispatches[d].participants) : ProviderRejects(d, i)
    \/ \E d \in 1..Len(dispatches) : Continue(d)

Spec == Init /\ [][Next]_vars

\* Cancellation tokens callers pass into a dispatch.
CallerTokens == {"tok1", "tok2"}

\* What a chat provider resolves with in the runs with cancellation.
AnswersWhenCancelling == { r \in ChatResults : r.message = "Hi" }

\* Chat dispatch by callers that pass their own tokens and may cancel them.
NextCancellation ==
    \/ \E p \in Providers : registerAiProvider(p)
    \/ \E p \in Providers : registerChatProvider(p)
    \/ \E i \in Inputs, c \in Contexts, t \in CallerTokens, now \in Clock, rnd \in Randoms :
            getChatResponse(i, c, t, now, rnd)
    \/ \E d \in 1..Len(dispatches) :
            \E i \in 1..Len(dispatches[d].participants), v \in AnswersWhenCancelling :
                ProviderResolves(d, i, v)
    \/ \E d \in 1..Len(dispatches) :
            \E i \in 1..Len(dispatches[d].participants) : ProviderRejects(d, i)
    \/ \E d \in 1..Len(dispatches) : Continue(d)
    \/ \E t \in CallerTokens : CancelToken(t)

SpecCancellation == Init /\ [][NextCancellation]_vars

\* The registry alone, with every provider object.
NextRegistry == RegistryNext(AllProviders)

SpecRegistry == Init /\ [][NextRegistry]_vars

\* A merge function applied to an array of provider results.
InitMerge ==
    /\ CoreInit
    /\ ContextInit
    /\ CallerInit
    /\ AssistantInit
    /\ PanelAbsent
    /\ mergeKind \in Kinds
    /\ mergeResults \in ArraysUpTo(MergeResultsOf(mergeKind), MaxResults)
    /\ mergeReturn = << >>

NextMerge ==
    \/ CallMergeCompletionResults
    \/ CallMergeChatResults
    \/ CallMergeCodeEditResults

SpecMerge == InitMerge /\ [][NextMerge]_vars

\* The context manager alone.
NextContext ==
    \/ \E context \in ContextUpdates : setContext(context)
    \/ clearContext

SpecContext == Init /\ [][NextContext]_vars

\* The run of a caller that reads the context has steps left.
ReaderBudget ==
    contextCalls + callerContext.reads + callerContext.mutations < MaxReaderSteps

\* The context manager and a caller that reads the context and changes the
\* object it got.
NextContextReader ==
    \/ \E context \in ContextUpdates : ReaderBudget /\ setContext(context)
    \/ ReaderBudget /\ clearContext
    \/ ReaderBudget /\ CallGetCurrentContext
    \/ \E m \in Mutations : ReaderBudget /\ MutateReturnedContext(m)

SpecContextReader == Init /\ [][NextContextReader]_vars

\* What a chat provider resolves with in the runs of the assistant service.
AnswersToAssistant == { r \in ChatResults : r.message = "Hi" }

\* The Partial<AiContext> setContext is called with around the operations.
AssistantContextUpdates == { [framework |-> "react"] }

\* No operation of the assistant service is in flight.
AssistantIdle == \A o \in 1..Len(operations) : operations[o].outcome # "pending"

\* The run of the assistant service has calls left.
AssistantBudget == callsMade + contextCalls + Len(operations) < MaxAssistantSteps

\* Operations of the assistant service over chat providers: the providers are
\* registered before the first operation, the operations are called one after
\* the other, and the context is set and cleared before, between and during them.
NextAssistant ==
    \/ AssistantBudget /\ operations = << >> /\ registerAiProvider("p1")
    \/ \E p \in Providers :
            AssistantBudget /\ operations = << >> /\ registerChatProvider(p)
    \/ \E context \in AssistantContextUpdates : AssistantBudget /\ setContext(context)
    \/ AssistantBudget /\ clearContext
    \/ \E name \in AssistantOperations, text \in Inputs, now \in Clock, rnd \in Randoms :
            \E additional \in AdditionalContexts(name) :
                /\ AssistantBudget
                /\ AssistantIdle
                /\ CallOperation(name, text, additional, now, rnd)
    \/ \E o \in 1..Len(operations) : FileContextReturns(o)
    \/ \E o \in 1..Len(operations), now \in Clock, rnd \in Randoms :
            BuildContextReturns(o, now, rnd)
    \/ \E d \in 1..Len(dispatches) :
            \E i \in 1..Len(dispatches[d].participants), v \in AnswersToAssistant :
                ProviderResolves(d, i, v)
    \/ \E d \in 1..Len(dispatches) :
            \E i \in 1..Len(dispatches[d].participants) : ProviderRejects(d, i)
    \/ \E d \in 1..Len(dispatches) : Continue(d)
    \/ \E o \in 1..Len(operations) : OperationContinues(o)

SpecAssistant == Init /\ [][NextAssistant]_vars

\* The panel widget over the assistant service: the providers are registered
\* before the first panel operation.
InitPanel ==
    CoreInit /\ MergerIdle /\ ContextInit /\ CallerInit /\ AssistantInit /\ PanelInit

NextPanel ==
    \/ operations = << >> /\ registerAiProvider("p1")
    \/ operations = << >> /\ registerChatProvider("p1")
    \/ \E name \in PanelOperations, now \in Clock, rnd \in Randoms :
            \E text \in PanelTexts(name) : PanelCall(name, text, now, rnd)
    \/ \E o \in 1..Len(operations), now \in Clock, rnd \in Randoms :
            BuildContextReturns(o, now, rnd)
    \/ \E d \in 1..Len(dispatches) :
            \E i \in 1..Len(dispatches[d].participants), v \in AnswersToAssistant :
                ProviderResolves(d, i, v)
    \/ \E d \in 1..Len(dispatches) :
            \E i \in 1..Len(dispatches[d].participants) : ProviderRejects(d, i)
    \/ \E d \in 1..Len(dispatches) : Continue(d)
    \/ \E o \in 1..Len(operations) : OperationContinues(o)
    \/ PanelContinues

SpecPanel == InitPanel /\ [][NextPanel]_vars

\* The continuation of an await runs once the awaited promise has settled.
SpecPanelLive == SpecPanel /\ WF_vars(PanelContinues)


\* ------------------------------------------------------------------ claims

DispatchIds == 1..Len(dispatches)

HandleIds == 1..Len(handles)

\* The provider methods invoked by dispatch d, in order of invocation.
CallsOf(d) == SelectSeq(calls, LAMBDA c : c.dispatch = d)

EventsOf(requestId, bus) ==
    SelectSeq(events, LAMBDA e : e.requestId = requestId /\ e.bus = bus)

Settled(r) == r.outcome # "pending"

\* The values the provider calls of r returned, by position in the kind's list.
ReturnedInListOrder(r) == [i \in 1..Len(r.returned) |-> r.returned[i][1]]

\* C1: a dispatch called while the list of its kind is empty rejects with the
\* no-providers error and invokes no provider method, whatever else is registered.
C1_EmptyKindRejects ==
    \A d \in DispatchIds :
        dispatches[d].listAtCall = << >> =>
            /\ CallsOf(d) = << >>
            /\ Settled(dispatches[d]) =>
                    /\ dispatches[d].outcome = "rejected"
                    /\ dispatches[d].error = NoProvidersError

\* C2: a dispatch called while the list of its kind is not empty invokes every
\* provider of that list exactly once, in order, with the dispatch's input,
\* context and token, whether or not a general provider is registered.
C2_EveryProviderInvokedOnce ==
    \A d \in DispatchIds :
        LET r == dispatches[d]
            cs == CallsOf(d)
        IN  r.listAtCall # << >> =>
                /\ Len(cs) = Len(r.listAtCall)
                /\ \A i \in 1..Len(cs) :
                        /\ cs[i].provider = r.listAtCall[i]
                        /\ cs[i].method = MethodOf(r.kind)
                        /\ cs[i].input = r.input
                        /\ cs[i].context = r.context
                        /\ cs[i].token = r.token

\* C3: a dispatch resolves only if every provider call it made resolved; once
\* any of its provider calls has rejected, a settled dispatch is rejected and
\* carries no merged result, and no response event was fired for it.
C3_SuccessRequiresAllSucceed ==
    \A d \in DispatchIds :
        LET r == dispatches[d]
        IN  /\ r.outcome = "resolved" =>
                    \A i \in 1..Len(r.participants) : r.provider[i] = "resolved"
            /\ ((\E i \in 1..Len(r.participants) : r.provider[i] = "rejected") /\ Settled(r))
                    => r.outcome = "rejected"
            /\ r.outcome = "rejected" =>
                    /\ r.result = << >>
                    /\ EventsOf(r.requestId, "onAiResponse") = << >>

\* A dispatch was rejected although every provider but one resolved, with the
\* failing provider registered before a succeeding one.
C3_Witness ==
    \E d \in DispatchIds :
        LET r == dispatches[d]
        IN  /\ r.outcome = "rejected"
            /\ Len(r.participants) >= 2
            /\ r.provider[1] = "rejected"
            /\ \A i \in 2..Len(r.participants) : r.provider[i] = "resolved"

\* The position of the provider call of r that rejected first in time.
FirstRejected(r) ==
    LET k == CHOOSE k \in 1..Len(r.order) :
                /\ r.provider[r.order[k]] = "rejected"
                /\ \A j \in 1..(k - 1) : r.provider[r.order[j]] # "rejected"
    IN  r.order[k]

\* C4: when provider calls of a dispatch reject, the dispatch rejects with the
\* error of the call that rejected first in time, and exactly one error event,
\* carrying that error, is fired for it; never more than one.
C4_FirstFailureWinsOneErrorEvent ==
    \A d \in DispatchIds :
        LET r == dispatches[d]
            errs == EventsOf(r.requestId, "onAiError")
        IN  /\ Len(errs) <= 1
            /\ (r.outcome = "rejected" /\ r.participants # << >>) =>
                    /\ \E i \in 1..Len(r.participants) : r.provider[i] = "rejected"
                    /\ r.error = ProviderError(FirstRejected(r))
                    /\ Len(errs) = 1
                    /\ errs[1].error = r.error
                    /\ errs[1].context = OperationOf(r.kind)

\* A dispatch is rejected, two of its provider calls have rejected, and the
\* one registered later rejected first.
C4_Witness ==
    \E d \in DispatchIds :
        LET r == dispatches[d]
        IN  /\ r.outcome = "rejected"
            /\ Len(r.participants) >= 2
            /\ r.provider[1] = "rejected"
            /\ r.provider[2] = "rejected"
            /\ r.order = << 2, 1 >>

\* C5: the merged result of a resolved dispatch is the merge of the providers'
\* results taken in registration order, whatever the order in which the
\* provider calls completed.
C5_MergeInRegistrationOrder ==
    \A d \in DispatchIds :
        LET r == dispatches[d]
        IN  r.outcome = "resolved" =>
                r.result = << MergeResults(r.kind, ReturnedInListOrder(r)) >>

\* A dispatch resolved whose second provider completed before its first, where
\* merging in completion order would have given another result.
C5_Witness ==
    \E d \in DispatchIds :
        LET r == dispatches[d]
        IN  /\ r.outcome = "resolved"
            /\ r.order = << 2, 1 >>
            /\ MergeResults(r.kind, << r.returned[2][1], r.returned[1][1] >>) # r.result[1]

\* C6: whatever is registered or unregistered while a dispatch is in flight, the
\* dispatch keeps exactly the providers that were in its kind's list when it was
\* called (listAtCall): those and no others were invoked, each of their calls
\* settles on its own, a resolved dispatch carries the merge of what all of them
\* returned, and a rejected one the error of one of them.
C6_OutcomeFixedByListAtCall ==
    \A d \in DispatchIds :
        LET r == dispatches[d]
            cs == CallsOf(d)
        IN  r.all.status # "none" =>
                /\ r.participants = r.listAtCall
                /\ Len(r.provider) = Len(r.listAtCall)
                /\ Len(cs) = Len(r.listAtCall)
                /\ \A i \in 1..Len(cs) : cs[i].provider = r.listAtCall[i]
                /\ r.outcome = "resolved" =>
                        /\ Len(r.returned) = Len(r.listAtCall)
                        /\ \A i \in 1..Len(r.returned) : r.provider[i] = "resolved"
                        /\ r.result = << MergeResults(r.kind, ReturnedInListOrder(r)) >>
                /\ r.outcome = "rejected" =>
                        \E i \in 1..Len(r.listAtCall) :
                            /\ r.provider[i] = "rejected"
                            /\ r.error = ProviderError(i)

\* A dispatch resolved with the result of a provider that was unregistered
\* while its call was still pending (no call of the dispatch had settled yet).
C6_Witness ==
    \E d \in DispatchIds :
        LET r == dispatches[d]
        IN  /\ r.outcome = "resolved"
            /\ r.churnAt = 0
            /\ Len(r.participants) >= 1
            /\ IndexOf(KindList(r.kind), r.participants[1]) = 0
            /\ r.result = << MergeResults(r.kind, << r.returned[1][1] >>) >>

AnyRegistered ==
    \/ \E id \in Ids : providers[id] # None
    \/ completionProviders # << >>
    \/ chatProviders # << >>
    \/ codeEditProviders # << >>

\* C7: isEnabled() is true exactly when some provider is registered in any of
\* the four registries.
C7_IsEnabledIffAnyRegistered == isEnabled <=> AnyRegistered

\* The step disposes handle h.
DisposeStepOf(h) == handles'[h].disposed = handles[h].disposed + 1

\* C8: disposing a handle that was disposed before changes no registry list
\* and does not invoke the provider's dispose again.
C8_SecondDisposeIsNoOp ==
    [][\A h \in HandleIds :
            (DisposeStepOf(h) /\ handles[h].disposed >= 1) =>
                /\ providers' = providers
                /\ completionProviders' = completionProviders
                /\ chatProviders' = chatProviders
                /\ codeEditProviders' = codeEditProviders
                /\ disposeCalls' = disposeCalls]_vars

ListsInRegistrationOrder ==
    \A kind \in Kinds :
        \A i, j \in 1..Len(KindList(kind)) :
            i < j => KindList(kind)[i].stamp < KindList(kind)[j].stamp

\* The step registers a provider of this kind: it is last, behind the entries
\* that were there.
NewProviderIsLast(kind) ==
    Len(KindList(kind)') > Len(KindList(kind)) =>
        /\ KindList(kind)' = Append(KindList(kind), KindList(kind)'[Len(KindList(kind)')])
        /\ KindList(kind)'[Len(KindList(kind)')] =
                Entry(handles'[Len(handles')].provider, Len(handles'))

\* The step removes from this kind's list: the other entries keep their order.
RemovalKeepsOrder(kind) ==
    Len(KindList(kind)') < Len(KindList(kind)) =>
        \E i \in 1..Len(KindList(kind)) : KindList(kind)' = Splice(KindList(kind), i)

\* C10: every kind's list keeps insertion order across register and unregister:
\* entries stay in the order of their registration, and a newly registered
\* provider is last.
C10_ListsKeepInsertionOrder ==
    [][\A kind \in Kinds :
            /\ ListsInRegistrationOrder'
            /\ NewProviderIsLast(kind)
            /\ RemovalKeepsOrder(kind)]_vars

\* A list holds two different providers after an entry registered before both
\* of them was removed.
C10_Witness ==
    \E kind \in Kinds :
        /\ Len(KindList(kind)) = 2
        /\ KindList(kind)[1].provider # KindList(kind)[2].provider
        /\ \E h \in HandleIds :
                /\ handles[h].kind = kind
                /\ handles[h].disposed = 1
                /\ h < KindList(kind)[1].stamp

\* ---------------------------------------------------- claims on the merger

\* A merge function of the given kind was called and has returned.
MergeReturned(kind) == mergeKind = kind /\ mergeReturn # << >>

\* The elements of a field of the providers' results, provider after provider
\* in registration order, each provider's elements in their own order.
RECURSIVE InRegistrationOrder(_, _)
InRegistrationOrder(results, field) ==
    IF Len(results) = 0 THEN << >>
    ELSE InRegistrationOrder(SubSeq(results, 1, Len(results) - 1), field)
             \o results[Len(results)][field]

\* (text, range start line, range start column)
KeyOf(c) == << c.text, c.startLineNumber, c.startColumn >>

\* The position at which a key arrives first.
FirstSeen(all, key) ==
    CHOOSE n \in 1..Len(all) :
        /\ KeyOf(all[n]) = key
        /\ \A m \in 1..(n - 1) : KeyOf(all[m]) # key

\* C11: the merged completion list holds no two completions with the same
\* (text, start line, start column); for every key that arrives it holds the
\* completion that arrived first under that key, score and all, and it holds
\* nothing else.
C11_OnePerKeyFirstSeen ==
    MergeReturned("completion") =>
        LET all == InRegistrationOrder(mergeResults, "completions")
            out == mergeReturn[1].completions
        IN  /\ \A i, j \in 1..Len(out) : KeyOf(out[i]) = KeyOf(out[j]) => i = j
            /\ \A n \in 1..Len(all) :
                    \E i \in 1..Len(out) : out[i] = all[FirstSeen(all, KeyOf(all[n]))]
            /\ \A i \in 1..Len(out) :
                    \E n \in 1..Len(all) :
                        out[i] = all[n] /\ n = FirstSeen(all, KeyOf(all[n]))

\* Two providers returned the same key with different scores, and the texts
\* of the arrivals hold the separator of the key.
C11_Witness ==
    /\ MergeReturned("completion")
    /\ LET all == InRegistrationOrder(mergeResults, "completions")
       IN  /\ \E m, n \in 1..Len(all) :
                m < n /\ KeyOf(all[m]) = KeyOf(all[n]) /\ all[m].score # all[n].score
           /\ \E n \in 1..Len(all) : all[n].text = "X-1"
    /\ Len(mergeResults) = MaxResults

\* C12: the merged completion list is in order of non-increasing score, and
\* completions with equal score are in the order in which they arrived.
C12_SortedByScoreStable ==
    MergeReturned("completion") =>
        LET all == InRegistrationOrder(mergeResults, "completions")
            out == mergeReturn[1].completions
        IN  \A i, j \in 1..Len(out) :
                i < j =>
                    /\ out[i].score >= out[j].score
                    /\ out[i].score = out[j].score =>
                            FirstSeen(all, KeyOf(out[i])) < FirstSeen(all, KeyOf(out[j]))

\* The sort had to move a completion forward, and it met a tie between
\* completions of two providers.
C12_Witness ==
    /\ MergeReturned("completion")
    /\ LET all == InRegistrationOrder(mergeResults, "completions")
           out == mergeReturn[1].completions
       IN  /\ \E i, j \in 1..Len(out) :
                /\ FirstSeen(all, KeyOf(out[i])) > FirstSeen(all, KeyOf(out[j]))
                /\ i < j
           /\ \E i, j \in 1..Len(out) :
                /\ i < j
                /\ out[i].score = out[j].score
                /\ FirstSeen(all, KeyOf(out[j])) > Len(mergeResults[1].completions)
                /\ FirstSeen(all, KeyOf(out[i])) <= Len(mergeResults[1].completions)

\* The providers, in registration order, whose result has a non-empty value
\* in the field.
NonEmptyAt(results, field) ==
    { k \in 1..Len(results) : field \in DOMAIN results[k] /\ results[k][field] # "" }

\* The field's value in the first result where it is non-empty, "" without one.
FirstNonEmpty(results, field) ==
    IF NonEmptyAt(results, field) = {} THEN ""
    ELSE LET k == CHOOSE n \in NonEmptyAt(results, field) :
                        \A m \in NonEmptyAt(results, field) : n <= m
         IN  results[k][field]

\* C13: the message of a merged chat response is the message of the first
\* provider, in registration order, whose message is not empty.
C13_MessageIsFirstNonEmpty ==
    MergeReturned("chat") =>
        mergeReturn[1].message = FirstNonEmpty(mergeResults, "message")

\* The position of the first occurrence of an element in a sequence.
FirstOccurrence(s, e) ==
    CHOOSE n \in 1..Len(s) : s[n] = e /\ \A m \in 1..(n - 1) : s[m] # e

\* C14: the code blocks of a merged chat response are all the providers' code
\* blocks in registration order, duplicates included; the suggestions are the
\* providers' suggestions in registration order without the repetitions, every
\* string at the place of its first occurrence.
C14_CodeBlocksConcatSuggestionsUnique ==
    MergeReturned("chat") =>
        LET all == InRegistrationOrder(mergeResults, "suggestions")
            out == mergeReturn[1].suggestions
        IN  /\ mergeReturn[1].codeBlocks = InRegistrationOrder(mergeResults, "codeBlocks")
            /\ \A i, j \in 1..Len(out) : out[i] = out[j] => i = j
            /\ { out[i] : i \in 1..Len(out) } = { all[n] : n \in 1..Len(all) }
            /\ \A i, j \in 1..Len(out) :
                    i < j => FirstOccurrence(all, out[i]) < FirstOccurrence(all, out[j])

\* A code block returned by two providers, a suggestion repeated within one
\* result and one repeated by a later provider, followed by a new suggestion.
C14_Witness ==
    /\ MergeReturned("chat")
    /\ LET blocks == InRegistrationOrder(mergeResults, "codeBlocks")
           all == InRegistrationOrder(mergeResults, "suggestions")
       IN  /\ \E m, n \in 1..Len(blocks) : m < n /\ blocks[m] = blocks[n]
           /\ \E k \in 1..Len(mergeResults) :
                \E m, n \in 1..Len(mergeResults[k].suggestions) :
                    m < n /\ mergeResults[k].suggestions[m] = mergeResults[k].suggestions[n]
           /\ \E l, m, n \in 1..Len(all) :
                /\ l < m /\ m < n
                /\ all[l] = all[m]
                /\ FirstOccurrence(all, all[n]) = n

\* The number of edits of the first k results.
RECURSIVE EditCount(_, _)
EditCount(results, k) ==
    IF k = 0 THEN 0 ELSE EditCount(results, k - 1) + Len(results[k].edits)

\* Two edits touch a common line.
Overlap(e, f) ==
    e.startLineNumber <= f.endLineNumber /\ f.startLineNumber <= e.endLineNumber

\* C15: the edits of a merged code-edit result are as many as the providers
\* returned together, and the i-th edit of the k-th provider stands right
\* after the edits of the providers before it and its own first i - 1 edits.
C15_EditsConcatenated ==
    MergeReturned("codeEdit") =>
        LET out == mergeReturn[1].edits
        IN  /\ Len(out) = EditCount(mergeResults, Len(mergeResults))
            /\ \A k \in 1..Len(mergeResults) :
                    \A i \in 1..Len(mergeResults[k].edits) :
                        out[EditCount(mergeResults, k - 1) + i] = mergeResults[k].edits[i]

\* Three providers: two of them return the same edit, two return different
\* edits that overlap, and the first two differ in what they return.
C15_Witness ==
    /\ MergeReturned("codeEdit")
    /\ Len(mergeResults) = MaxResults
    /\ mergeResults[1].edits # mergeResults[2].edits
    /\ \E k, l \in 1..Len(mergeResults) :
            /\ k < l
            /\ \E i \in 1..Len(mergeResults[k].edits), j \in 1..Len(mergeResults[l].edits) :
                    mergeResults[k].edits[i] = mergeResults[l].edits[j]
    /\ \E k, l \in 1..Len(mergeResults) :
            /\ k < l
            /\ \E i \in 1..Len(mergeResults[k].edits), j \in 1..Len(mergeResults[l].edits) :
                    /\ mergeResults[k].edits[i] # mergeResults[l].edits[j]
                    /\ Overlap(mergeResults[k].edits[i], mergeResults[l].edits[j])

\* C16: the explanation of a merged code-edit result is the explanation of the
\* first provider, in registration order, whose explanation is present and not
\* empty.
C16_ExplanationIsFirstNonEmpty ==
    MergeReturned("codeEdit") =>
        mergeReturn[1].explanation = FirstNonEmpty(mergeResults, "explanation")

\* ------------------------------------------- claims on the context manager

\* The last call made to the context manager was setContext.
AfterSetContext == lastContextCall.name = "setContext"

\* C17: after setContext(changes) every field of changes has the value given
\* in changes, and every other field is as it was before the call: set to the
\* same value, or not set.
C17_SetContextOverlaysFields ==
    AfterSetContext =>
        LET changes == lastContextCall.changes
            before == lastContextCall.before
        IN  /\ DOMAIN currentContext \subseteq ContextFields
            /\ \A f \in ContextFields :
                    IF f \in DOMAIN changes
                    THEN f \in DOMAIN currentContext /\ currentContext[f] = changes[f]
                    ELSE /\ f \in DOMAIN currentContext <=> f \in DOMAIN before
                         /\ f \in DOMAIN before => currentContext[f] = before[f]

\* setContext({language}) then setContext({framework}): both fields are set.
C17_Witness ==
    /\ AfterSetContext
    /\ contextLog = << EmptyContext, [language |-> "ts"] >>
    /\ lastContextCall.changes = [framework |-> "react"]
    /\ currentContext = [language |-> "ts", framework |-> "react"]

\* C18: the context history never holds more than 10 entries.
C18_HistoryAtMostTen == Len(contextHistory) <= 10

\* The history is full and an entry has been evicted from it.
C18_Witness ==
    /\ Len(contextHistory) = 10
    /\ Len(contextLog) > 10

\* The contexts that were current just before each of the last k setContext
\* calls since the last clear, oldest first.
LastSnapshots(k) == SubSeq(contextLog, Len(contextLog) - k + 1, Len(contextLog))

\* C19: the history is the window of the last min(n, 10) pre-update snapshots
\* of the n setContext calls since the last clear, oldest first; its newest
\* entry is the context as it was just before the most recent setContext.
C19_HistoryIsWindowOfSnapshots ==
    LET n == Len(contextLog)
    IN  /\ contextHistory = LastSnapshots(IF n < 10 THEN n ELSE 10)
        /\ AfterSetContext =>
                /\ contextHistory # << >>
                /\ contextHistory[Len(contextHistory)] = lastContextCall.before

\* After a clear, more than 10 setContext calls were made; the snapshot that
\* was evicted differs from the oldest one kept, and the newest entry differs
\* from the current context.
C19_Witness ==
    /\ AfterSetContext
    /\ contextCalls > Len(contextLog)
    /\ Len(contextLog) > 10
    /\ contextLog[1] # contextHistory[1]
    /\ contextHistory[Len(contextHistory)] # currentContext

\* The last call made to the context manager was clearContext.
AfterClearContext == lastContextCall.name = "clearContext"

\* C20: after clearContext the current context is empty and the history has
\* no entry, both at once.
C20_ClearEmptiesContextAndHistory ==
    AfterClearContext =>
        /\ getCurrentContext = EmptyContext
        /\ Len(contextHistory) = 0

\* clearContext was called on a context with fields set and a full history.
C20_Witness ==
    /\ AfterClearContext
    /\ DOMAIN lastContextCall.before = ContextFields
    /\ lastContextCall.historyBefore = 10

\* A caller changed the object it got from getCurrentContext.
CallerMutates == callerContext'.mutations = callerContext.mutations + 1

\* C21: when a caller adds, changes or removes a top-level field of a context
\* object that getCurrentContext returned, the manager's current context, the
\* result of getCurrentContext and every history entry stay as they are.
C21_ReturnedContextIsACopy ==
    [][CallerMutates =>
            /\ currentContext' = currentContext
            /\ getCurrentContext' = getCurrentContext
            /\ contextHistory' = contextHistory]_vars

\* The caller read a context with fields set, with a snapshot in the history,
\* and changed the object it got: it now differs from the current context.
C21_Witness ==
    /\ callerContext.mutations > 0
    /\ callerContext.held.value # currentContext
    /\ currentContext # EmptyContext
    /\ contextHistory # << >>
    /\ lastContextCall.name = "setContext"

\* A setContext call is made in this step.
SetContextStep ==
    /\ contextCalls' = contextCalls + 1
    /\ lastContextCall'.name = "setContext"

\* C22: a setContext call fires onContextUpdated exactly once; the event's
\* context is the full context after the overlay and its changes are the
\* partial update that was passed in.
C22_SetContextEmitsOneEvent ==
    [][SetContextStep =>
            /\ contextUpdated'.fired = contextUpdated.fired + 1
            /\ contextUpdated'.last.context = currentContext'
            /\ contextUpdated'.last.changes = lastContextCall'.changes]_vars

\* An update of one field was applied to a context that had the other field
\* set: the event carries both fields as context and the one as changes.
C22_Witness ==
    /\ AfterSetContext
    /\ contextUpdated.fired > 1
    /\ DOMAIN contextUpdated.last.context = ContextFields
    /\ DOMAIN contextUpdated.last.changes = {"language"}
    /\ lastContextCall.before # currentContext

\* ------------------------------------------ claims on the dispatch events

\* The positions in events of the events that carry a dispatch's request id.
EventsFor(r) == { e \in 1..Len(events) : events[e].requestId = r.requestId }

\* The name of the operation a dispatch of a kind was made through.
OperationName(kind) ==
    CASE kind = "completion" -> "getCompletion"
      [] kind = "chat" -> "getChatResponse"
      [] kind = "codeEdit" -> "getCodeEdit"

\* C23: a dispatch has published nothing while it is pending and exactly one
\* event once it completed: a response event with its request id, kind and
\* merged result when it resolved, an error event with its request id, its
\* error and the name of its operation when it rejected.
C23_OneEventPerCompletedDispatch ==
    \A d \in DispatchIds :
        LET r == dispatches[d]
        IN  /\ r.outcome = "pending" => EventsFor(r) = {}
            /\ Settled(r) => Cardinality(EventsFor(r)) = 1
            /\ \A e \in EventsFor(r) :
                    /\ events[e].bus = "onAiResponse" <=> r.outcome = "resolved"
                    /\ events[e].bus = "onAiError" <=> r.outcome = "rejected"
                    /\ r.outcome = "resolved" =>
                            events[e].type = r.kind /\ events[e].result = r.result
                    /\ r.outcome = "rejected" =>
                            events[e].error = r.error /\ events[e].context = OperationName(r.kind)

\* One dispatch resolved and another one rejected because a provider failed,
\* while the first was in flight.
C23_Witness ==
    \E d, f \in DispatchIds :
        /\ dispatches[d].outcome = "resolved"
        /\ dispatches[f].outcome = "rejected"
        /\ dispatches[f].error # NoProvidersError
        /\ \E e \in EventsFor(dispatches[d]), g \in EventsFor(dispatches[f]) :
                (d < f) /\ (g < e)

\* Dispatch d's promise settles in this step: it was pending, or not yet called.
SettlesNow(d) ==
    /\ d \in 1..Len(dispatches')
    /\ dispatches'[d].outcome # "pending"
    /\ d \in 1..Len(dispatches) => dispatches[d].outcome = "pending"

\* C24: in the step in which a dispatch's promise settles, its response or
\* error event is fired, and the observers have got it: the event is the last
\* one delivered when the caller's continuation can first run.
C24_EventBeforeSettle ==
    [][\A d \in 1..Len(dispatches') :
            SettlesNow(d) =>
                /\ Len(events') = Len(events) + 1
                /\ events'[Len(events')].requestId = dispatches'[d].requestId
                /\ events'[Len(events')].bus =
                        IF dispatches'[d].outcome = "resolved" THEN "onAiResponse"
                                                               ELSE "onAiError"]_vars

\* C24 happens: a dispatch that waited for a provider has resolved, another has
\* rejected right at its call, and each has its event.
C24_Witness ==
    \E d, f \in DispatchIds :
        /\ dispatches[d].outcome = "resolved"
        /\ Len(dispatches[d].participants) = 1
        /\ dispatches[f].outcome = "rejected"
        /\ dispatches[f].error = NoProvidersError
        /\ EventsFor(dispatches[d]) # {}
        /\ EventsFor(dispatches[f]) # {}

\* C25: any two dispatches carry different request ids, also when the clock
\* and the random source return the same values for both.
C25_RequestIdsDiffer ==
    \A d, f \in DispatchIds : d # f => dispatches[d].requestId # dispatches[f].requestId

\* Three dispatches: one failed at once, one is in flight and one completed
\* while it was.
C25_Witness ==
    \E d, f, g \in DispatchIds :
        /\ dispatches[d].error = NoProvidersError
        /\ dispatches[f].outcome = "pending"
        /\ dispatches[g].outcome = "resolved"
        /\ f < g

\* The token of a dispatch was cancelled while a provider call of it was pending.
CancelledWhilePending(r) ==
    r.signalledAt >= 0 /\ r.signalledAt < Len(r.participants)

\* C27: a dispatch whose token was cancelled while one of its provider calls
\* was pending completes with the cancellation outcome and with no other.
C27_CancelledDispatchIsCancelled ==
    \A d \in DispatchIds :
        LET r == dispatches[d]
        IN  CancelledWhilePending(r) /\ Settled(r) =>
                r.outcome = "rejected" /\ r.error.name = "CancelledOperation"

\* C28: every provider call of a dispatch was made with the token that was
\* passed into the dispatch.
C28_ProvidersGetTheDispatchToken ==
    \A c \in 1..Len(calls) : calls[c].token = dispatches[calls[c].dispatch].token

\* A dispatch with the second token invoked two providers.
C28_Witness ==
    \E d \in DispatchIds :
        /\ dispatches[d].token = "tok2"
        /\ Len(dispatches[d].participants) = 2
        /\ \E b, c \in 1..Len(calls) :
                b # c /\ calls[b].dispatch = d /\ calls[c].dispatch = d

OperationIds == 1..Len(operations)

\* The events fired on the assistant's buses for operation op.
AssistantEventsFor(op) ==
    { e \in 1..Len(assistantEvents) : assistantEvents[e].requestId = op.requestId }

\* C26: no failure is silently recovered.  A settled dispatch one of whose
\* provider calls rejected is rejected with an error event naming its
\* operation, and a settled assistant operation one of whose awaited calls
\* (getFileContext, getWorkspaceContext, getChatResponse) rejected is rejected
\* with an error event naming the operation.
C26_NoFailureSwallowed ==
    /\ \A d \in DispatchIds :
            LET r == dispatches[d]
            IN  (Settled(r) /\ \E i \in 1..Len(r.provider) : r.provider[i] = "rejected") =>
                    /\ r.outcome = "rejected"
                    /\ \E e \in EventsFor(r) :
                            /\ events[e].bus = "onAiError"
                            /\ events[e].context = OperationName(r.kind)
    /\ \A o \in OperationIds :
            LET op == operations[o]
            IN  (Settled(op) /\ op.failed # {}) =>
                    /\ op.outcome = "rejected"
                    /\ \E e \in AssistantEventsFor(op) :
                            /\ assistantEvents[e].bus = "onAssistantError"
                            /\ assistantEvents[e].context = op.name

\* The context handed to the providers by operation op's dispatch is the
\* manager's context at the call overlaid with the call's additional context.
ProvidersGetOverlay(op) ==
    /\ op.context # << >> => op.context[1] = Spread(op.contextAtCall, op.additional)
    /\ op.dispatch # 0 =>
            /\ dispatches[op.dispatch].context = op.context[1]
            /\ \A c \in 1..Len(CallsOf(op.dispatch)) :
                    CallsOf(op.dispatch)[c].context = op.context[1]

AllProvidersGetOverlay == \A o \in OperationIds : ProvidersGetOverlay(operations[o])

\* C29: no step of an assistant operation changes the manager's current context
\* or its history, and the context an operation hands to the providers is the
\* current context at its call overlaid with its additional context, whatever
\* the history holds.
C29_OperationsLeaveContextAlone ==
    [][/\ operations' # operations =>
            /\ currentContext' = currentContext
            /\ contextHistory' = contextHistory
       /\ AllProvidersGetOverlay']_vars

\* C29 happens: an operation called with an additional context, while the
\* current context was set and the history was not empty, has resolved with the
\* answer of a provider.
C29_Witness ==
    \E o \in OperationIds :
        LET op == operations[o]
        IN  /\ op.outcome = "resolved"
            /\ op.contextAtCall # EmptyContext
            /\ op.historyAtCall # << >>
            /\ op.additional # EmptyContext
            /\ CallsOf(op.dispatch) # << >>

\* The higher-level operations of the assistant service.
HigherLevelOperations ==
    {"explainCode", "refactorCode", "fixBug", "generateTests", "generateDocumentation",
     "reviewCode", "optimizePerformance", "analyzeSecurity"}

\* C30: the chat round-trip of a higher-level operation is served by a single
\* provider: its dispatch invokes at most one provider method.
C30_OneProviderPerOperation ==
    \A o \in OperationIds :
        LET op == operations[o]
        IN  (op.name \in HigherLevelOperations /\ op.dispatch # 0) =>
                Len(CallsOf(op.dispatch)) <= 1

\* ------------------------------------- claims on notifications and handles

\* A call to the context manager changes the current context.
ContextChangingStep ==
    /\ contextCalls' = contextCalls + 1
    /\ currentContext' # currentContext

\* C31: every call that changes the current context, a setContext or a
\* clearContext of a context that is not empty, fires onContextUpdated once.
C31_EveryContextChangeNotifies ==
    [][ContextChangingStep =>
            contextUpdated'.fired = contextUpdated.fired + 1]_vars

\* The number of entries of a kind's list that hold provider p.
EntriesOf(list, p) == Cardinality({ i \in 1..Len(list) : list[i].provider = p })

\* C32: the first dispose of a handle removes only the registration the handle
\* was returned for.  A general handle leaves a different provider object that
\* is registered under the same id where it is, leaves the other ids alone and
\* invokes no other provider's dispose; a kind handle whose entry is in the
\* list takes one entry of its provider out of the list of its kind and
\* leaves every other entry and every other registry alone.
C32_HandleRemovesOnlyItsOwn ==
    [][\A h \in HandleIds :
            (DisposeStepOf(h) /\ handles[h].disposed = 0) =>
                LET p == handles[h].provider
                IN  IF handles[h].kind = "general"
                    THEN /\ \A id \in Ids :
                                providers[id] # p => providers'[id] = providers[id]
                         /\ \A q \in AllProviders \ {p} : disposeCalls'[q] = disposeCalls[q]
                         /\ \A kind \in Kinds : KindList(kind)' = KindList(kind)
                    ELSE /\ providers' = providers
                         /\ disposeCalls' = disposeCalls
                         /\ \A kind \in Kinds \ {handles[h].kind} :
                                KindList(kind)' = KindList(kind)
                         /\ LET list == KindList(handles[h].kind)
                            IN  (\E i \in 1..Len(list) : list[i].stamp = h) =>
                                    /\ EntriesOf(KindList(handles[h].kind)', p)
                                            = EntriesOf(list, p) - 1
                                    /\ \A q \in AllProviders \ {p} :
                                            EntriesOf(KindList(handles[h].kind)', q)
                                                = EntriesOf(list, q)]_vars

\* C33: while the notification of a setContext is delivered, a listener gets
\* from getCurrentContext() the context the event carries, and finds the
\* context of before the call as the newest history entry, the history being
\* one entry longer than before the call and never longer than 10.
C33_ListenerSeesUpdateApplied ==
    AfterSetContext =>
        LET seen == contextUpdated.seen
            n == lastContextCall.historyBefore
        IN  /\ seen.context = contextUpdated.last.context
            /\ Len(seen.history) = (IF n < 10 THEN n + 1 ELSE 10)
            /\ seen.history[Len(seen.history)] = lastContextCall.before

\* C33 happens: the notification of a setContext that changed the context
\* was delivered while the history was full.
C33_Witness ==
    /\ AfterSetContext
    /\ lastContextCall.historyBefore = 10
    /\ lastContextCall.before # contextUpdated.last.context
    /\ contextUpdated.seen.history[1] # contextUpdated.seen.history[10]

\* ------------------------------------------ claims on the assistant service

\* C34: the context the core dispatch of an operation and each of its
\* providers receive is the manager's context as it was when the operation was
\* called, overlaid with the call's additional context, whatever setContext
\* and clearContext did to the manager since.
C34_ContextIsOfCallTime ==
    \A o \in OperationIds :
        LET op == operations[o]
            sent == Spread(Spread(EmptyContext, op.contextAtCall), op.additional)
        IN  op.dispatch # 0 =>
                /\ dispatches[op.dispatch].context = sent
                /\ \A c \in 1..Len(calls) :
                        calls[c].dispatch = op.dispatch => calls[c].context = sent

\* C34 happens: the context was changed while an operation awaited the
\* workspace context, the overlay of the changed context differs from the one
\* of the call, and the operation's provider was invoked.
C34_Witness ==
    \E o \in OperationIds :
        LET op == operations[o]
        IN  /\ op.dispatch # 0
            /\ CallsOf(op.dispatch) # << >>
            /\ "getWorkspaceContext" \in op.failed
            /\ Spread(op.contextAtDispatch[1], op.additional)
                    # Spread(op.contextAtCall, op.additional)

\* C35: an assistant operation has published nothing on the assistant's buses
\* while it is pending and exactly one event once it completed: a response
\* event when it resolved, an error event with the operation's name when it
\* rejected.  The event carries a request id no other operation and no core
\* dispatch has.  When the operation made a core dispatch, that dispatch's
\* event was fired before the assistant's and is of the same kind.
C35_OneAssistantEventAfterCoreEvent ==
    \A o \in OperationIds :
        LET op == operations[o]
        IN  /\ op.outcome = "pending" => AssistantEventsFor(op) = {}
            /\ Settled(op) => Cardinality(AssistantEventsFor(op)) = 1
            /\ \A p \in OperationIds : p # o => operations[p].requestId # op.requestId
            /\ \A d \in DispatchIds : dispatches[d].requestId # op.requestId
            /\ \A e \in AssistantEventsFor(op) :
                    LET event == assistantEvents[e]
                    IN  /\ event.bus = "onAssistantResponse" <=> op.outcome = "resolved"
                        /\ event.bus = "onAssistantError" <=> op.outcome = "rejected"
                        /\ op.outcome = "resolved" => event.type = op.name
                        /\ op.outcome = "rejected" => event.context = op.name
                        /\ op.dispatch # 0 =>
                                \E c \in EventsFor(dispatches[op.dispatch]) :
                                    /\ c <= event.coreEvents
                                    /\ events[c].bus = "onAiResponse"
                                            <=> event.bus = "onAssistantResponse"
                                    /\ events[c].bus = "onAiError"
                                            <=> event.bus = "onAssistantError"

\* C35 happens: one operation resolved with a provider's answer, another one
\* rejected because its provider rejected, and both have their events.
C35_Witness ==
    \E o, p \in OperationIds :
        /\ operations[o].outcome = "resolved"
        /\ CallsOf(operations[o].dispatch) # << >>
        /\ operations[p].outcome = "rejected"
        /\ operations[p].dispatch # 0
        /\ operations[p].error # NoProvidersError
        /\ AssistantEventsFor(operations[o]) # {}
        /\ AssistantEventsFor(operations[p]) # {}

\* C36: a chatWithFile or chatWithSelection called while a chat provider is
\* registered, none of whose provider calls rejects, invokes the chat
\* providers and, once settled, has resolved.
C36_ChatWithFileCanSucceed ==
    \A o \in OperationIds :
        LET op == operations[o]
        IN  (/\ op.name \in {"chatWithFile", "chatWithSelection"}
             /\ op.chatProvidersAtCall # << >>
             /\ Settled(op)
             /\ op.dispatch # 0 =>
                    \A i \in 1..Len(dispatches[op.dispatch].provider) :
                        dispatches[op.dispatch].provider[i] # "rejected") =>
                /\ op.outcome = "resolved"
                /\ op.dispatch # 0
                /\ CallsOf(op.dispatch) # << >>

\* ------------------------------------------------------ claims on the panel

\* A panel operation is called in this step.
PanelCallStep == panelCallsMade'.made = panelCallsMade.made + 1

\* C37: a panel operation called while an accepted panel operation has not
\* returned calls no operation of the assistant service, fires no panel event
\* and leaves the message history and the loading flag as they are.
C37_OnePanelOperationAtATime ==
    [][(PanelCallStep /\ panel.operation # 0) =>
            /\ operations' = operations
            /\ assistantCounter' = assistantCounter
            /\ panel'.events = panel.events
            /\ panel'.messages = panel.messages
            /\ panel'.operation = panel.operation
            /\ panel'.isLoading = panel.isLoading]_vars

\* C37 happens: two panel operations were called while the first one had not
\* returned, and the assistant service was called once.
C37_Witness ==
    /\ panelCallsMade.inFlight = 2
    /\ Len(operations) = 1
    /\ Len(panel.messages) = 1
    /\ panel.operation = 1

\* C38: the loading flag is set only while an accepted panel operation has not
\* returned, and once the assistant call of that operation has settled, with
\* either outcome, the flag becomes false.
C38_LoadingFlagReturns ==
    /\ [](panel.isLoading => panel.operation # 0)
    /\ (panel.operation # 0 /\ operations[panel.operation].outcome # "pending")
            ~> ~panel.isLoading

\* C38 happens: the assistant call of a panel operation rejected, the flag went
\* back to false, and a later panel operation was accepted and has resolved.
C38_Witness ==
    /\ Len(operations) = 2
    /\ operations[1].outcome = "rejected"
    /\ operations[2].outcome = "resolved"
    /\ panel.operation = 0
    /\ ~panel.isLoading

\* The onError events the panel fired about assistant operation o, and the
\* error messages it added to the history for it.
PanelErrorsFor(o) ==
    { e \in 1..Len(panel.events) :
        panel.events[e].bus = "onError" /\ panel.events[e].operation = o }

PanelErrorMessagesFor(o) ==
    { m \in 1..Len(panel.messages) :
        panel.messages[m].type = "assistant" /\ panel.messages[m].operation = o }

\* C39: once a panel operation whose assistant call rejected has returned, the
\* panel has fired exactly one onError event and added exactly one error
\* message for that failure.
C39_OneErrorReportPerFailure ==
    \A o \in OperationIds :
        (operations[o].outcome = "rejected" /\ panel.operation # o) =>
            /\ Cardinality(PanelErrorsFor(o)) = 1
            /\ Cardinality(PanelErrorMessagesFor(o)) = 1

====
